---- MODULE Spec2Model ----
(***************************************************************************)
(* A model of tff-cli: the relative time-expression parser                 *)
(* (cmd/timefilter.go), the list/export query builder (api client), the    *)
(* events list / events export commands that drive them, the helpers that  *)
(* decode and read a resource (api client), the token resolution of main,  *)
(* dictionary categories, and the commands on one resource (get, delete,   *)
(* publish, unpublish, comments) against the server and another writer.    *)
(*                                                                         *)
(* Every Go string is modelled as a sequence of one-character strings, so  *)
(* that the regular expression, time.Parse, time.Format, strings.SplitN    *)
(* and strings.TrimSpace are computed character by character.  The empty   *)
(* Go string "" is the empty sequence << >>.                               *)
(***************************************************************************)
EXTENDS Integers, Sequences, FiniteSets, TLC

VARIABLES
    now,        \* the wall clock (what time.Now() returns), local zone
    parseFn,    \* which parser entry point was called last ("" = none yet)
    parseIn,    \* its argument
    parseOut,   \* its result
    parseAt,    \* the clock value at that call
    queryFn,    \* which query builder was called last ("" = none yet)
    queryIn,    \* its argument
    queryOut,   \* the url.Values it returned
    pc,         \* where the command execution stands: idle, awaiting, done
    cmdName,    \* the command being run ("" = none yet)
    cmdArgs,    \* its flags, as the command line parser filled them in
    cmdErr,     \* the error Run returned, NoCmdError while there is none
    requests,   \* the HTTP requests issued so far, in order
    resFn,      \* which resource helper was called last ("" = none yet)
    resIn,      \* its argument (or receiver)
    resOut,     \* its result
    server,     \* the document the server holds under the resource's id
    body,       \* what the GET of publish/unpublish returned to the client
    initial,    \* the document the server held at first
    external,   \* the writes another client of the API made, in order
    stdout      \* the lines the command printed

parseVars == <<parseFn, parseIn, parseOut, parseAt>>
queryVars == <<queryFn, queryIn, queryOut>>

cmdVars == <<pc, cmdName, cmdArgs, cmdErr, requests>>

resVars == <<resFn, resIn, resOut>>

srvVars == <<server, body, initial, external, stdout>>

vars == <<now, parseFn, parseIn, parseOut, parseAt, queryFn, queryIn, queryOut,
          pc, cmdName, cmdArgs, cmdErr, requests, resFn, resIn, resOut,
          server, body, initial, external, stdout>>

-----------------------------------------------------------------------------
(* Bounds of the model *)

\* longest enumerated free-form time expression, in characters
MaxLen == 3

\* how many of the plain string filters of a ListOptions are set at once
MaxFilters == 2

-----------------------------------------------------------------------------
(* Characters and decimal numbers *)

Digits == {"0", "1", "2", "3", "4", "5", "6", "7", "8", "9"}

DigitChars == <<"0", "1", "2", "3", "4", "5", "6", "7", "8", "9">>

IsDigit(c) == c \in Digits

DigitVal(c) == (CHOOSE i \in 1..10 : DigitChars[i] = c) - 1

\* strconv.Atoi on a string of decimal digits (the only strings the regular
\* expression lets through).  The digit strings of this model are far below
\* the range of int, so the range error Atoi's caller ignores never arises.
RECURSIVE Atoi(_)
Atoi(ds) ==
    IF ds = << >> THEN 0
    ELSE 10 * Atoi(SubSeq(ds, 1, Len(ds) - 1)) + DigitVal(ds[Len(ds)])

\* the decimal digits of n >= 0
RECURSIVE Itoa(_)
Itoa(n) ==
    IF n < 10 THEN <<DigitChars[n + 1]>>
    ELSE Itoa(n \div 10) \o <<DigitChars[(n % 10) + 1]>>

RECURSIVE ZeroPad(_, _)
ZeroPad(ds, width) ==
    IF Len(ds) >= width THEN ds ELSE ZeroPad(<<"0">> \o ds, width)

\* time.appendInt: a sign, then the digits zero-padded to width
AppendInt(x, width) ==
    IF x < 0 THEN <<"-">> \o ZeroPad(Itoa(-x), width)
    ELSE ZeroPad(Itoa(x), width)

-----------------------------------------------------------------------------
(* Calendar arithmetic of package time (proleptic Gregorian calendar) *)

IsLeap(y) == y % 4 = 0 /\ (y % 100 # 0 \/ y % 400 = 0)

\* days before the first of each month in a non-leap year (time.daysBefore)
DaysBefore == <<0, 31, 59, 90, 120, 151, 181, 212, 243, 273, 304, 334, 365>>

\* days of year y before the first of month m (m = 13: the whole year)
DaysBeforeMonth(y, m) ==
    DaysBefore[m] + (IF IsLeap(y) /\ m >= 3 THEN 1 ELSE 0)

DaysIn(m, y) == DaysBeforeMonth(y, m + 1) - DaysBeforeMonth(y, m)

\* days from 0000-01-01 to y-01-01
DaysBeforeYear(y) ==
    365 * y + ((y - 1) \div 4) - ((y - 1) \div 100) + ((y - 1) \div 400) + 1

\* the day number of a civil date whose month is in 1..12; the day may lie
\* outside the month (time.Date adds day-1 to the first of the month)
DaysFromCivil(y, m, d) == DaysBeforeYear(y) + DaysBeforeMonth(y, m) + (d - 1)

\* the civil date of a day number (time.Time.Date on the normalised instant)
CivilFromDays(n) ==
    LET y == CHOOSE yy \in ((n \div 366) - 1)..((n \div 365) + 1) :
                 DaysBeforeYear(yy) <= n /\ n < DaysBeforeYear(yy + 1)
        doy == n - DaysBeforeYear(y)
        m == CHOOSE mm \in 1..12 :
                 DaysBeforeMonth(y, mm) <= doy /\ doy < DaysBeforeMonth(y, mm + 1)
    IN [year |-> y, month |-> m, day |-> doy - DaysBeforeMonth(y, m) + 1]

\* a time.Time: civil date, second of the day, and whether its zone is UTC
\* (time.Parse) or the local zone (time.Now)
MkTime(y, m, d, s, u) == [year |-> y, month |-> m, day |-> d, sec |-> s, utc |-> u]

\* the zero time.Time{}
ZeroTime == MkTime(1, 1, 1, 0, TRUE)

\* time.Time.AddDate: Date(year+years, month+months, day+days, clock, loc),
\* which normalises the month into 1..12 first and then lets the day
\* overflow into the following (or preceding) months
AddDate(t, years, months, days) ==
    LET m0 == (t.month - 1) + months
        y1 == t.year + years + (m0 \div 12)
        m1 == (m0 % 12) + 1
        c  == CivilFromDays(DaysFromCivil(y1, m1, t.day + days))
    IN MkTime(c.year, c.month, c.day, t.sec, t.utc)

-----------------------------------------------------------------------------
(* cmd/timefilter.go *)

\* the alternatives of the unit group (d|w|mo|y)
Units == {<<"d">>, <<"w">>, <<"m", "o">>, <<"y">>}

\* relativeTimeRe.FindStringSubmatch for ^(\d+)(d|w|mo|y)$ : << >> (nil) or
\* <<whole match, digits, unit>>
FindStringSubmatch(s) ==
    LET ks == {k \in 1..(Len(s) - 1) :
                  /\ \A i \in 1..k : IsDigit(s[i])
                  /\ SubSeq(s, k + 1, Len(s)) \in Units}
    IN IF ks = {} THEN << >>
       ELSE LET k == CHOOSE kk \in ks : TRUE
            IN <<s, SubSeq(s, 1, k), SubSeq(s, k + 1, Len(s))>>

AllDigits(s, from, to) == \A i \in from..to : IsDigit(s[i])

\* TimeParse checking the day against 31 in every month: a day past the end
\* of a shorter month is carried into the following month
TimeParse_AnyDay(s) ==
    IF /\ Len(s) = 10
       /\ AllDigits(s, 1, 4) /\ s[5] = "-"
       /\ AllDigits(s, 6, 7) /\ s[8] = "-"
       /\ AllDigits(s, 9, 10)
       /\ Atoi(SubSeq(s, 6, 7)) \in 1..12
       /\ Atoi(SubSeq(s, 9, 10)) \in 1..31
    THEN [ok |-> TRUE,
          t |-> AddDate(MkTime(Atoi(SubSeq(s, 1, 4)), Atoi(SubSeq(s, 6, 7)), 1, 0, TRUE),
                        0, 0, Atoi(SubSeq(s, 9, 10)) - 1)]
    ELSE [ok |-> FALSE, t |-> ZeroTime]

\* time.Parse("2006-01-02", s): a four-digit year, "-", a two-digit month,
\* "-", a two-digit day, no text after it, month in 1..12 and the day in
\* the month.  The result is in UTC at midnight.
TimeParse(s) ==
    IF /\ Len(s) = 10
       /\ AllDigits(s, 1, 4) /\ s[5] = "-"
       /\ AllDigits(s, 6, 7) /\ s[8] = "-"
       /\ AllDigits(s, 9, 10)
    THEN LET y == Atoi(SubSeq(s, 1, 4))
             m == Atoi(SubSeq(s, 6, 7))
             d == Atoi(SubSeq(s, 9, 10))
         IN IF m >= 1 /\ m <= 12 /\ d >= 1 /\ d <= DaysIn(m, y)
            THEN [ok |-> TRUE, t |-> MkTime(y, m, d, 0, TRUE)]
            ELSE [ok |-> FALSE, t |-> ZeroTime]
    ELSE [ok |-> FALSE, t |-> ZeroTime]

\* the accepted forms the error message lists
AcceptedForms ==
    << <<"3", "d">>, <<"2", "w">>, <<"1", "m", "o">>, <<"1", "y">>,
       <<"2", "0", "2", "6", "-", "0", "1", "-", "1", "5">> >>

NoError == [kind |-> "none", input |-> << >>, forms |-> << >>]

DateFormatError(s) ==
    [kind |-> "DATE_FORMAT_ERROR", input |-> s, forms |-> AcceptedForms]

\* WeekDays without the factor: weeks taken for days
WeekDays_Plain(n) == n

\* the days a relative expression of n weeks goes back: n*7
WeekDays(n) == n * 7

\* the switch on the unit: the (years, months, days) handed to now.AddDate
RelativeOffset(unit, n) ==
    CASE unit = <<"d">> -> <<0, 0, -n>>
      [] unit = <<"w">> -> <<0, 0, -WeekDays(n)>>
      [] unit = <<"m", "o">> -> <<0, -n, 0>>
      [] unit = <<"y">> -> <<-n, 0, 0>>

\* the relative branch, m being the submatches: now.AddDate(...), nil
RelativeTime(m, t) ==
    [t |-> AddDate(t, RelativeOffset(m[3], Atoi(m[2]))[1],
                      RelativeOffset(m[3], Atoi(m[2]))[2],
                      RelativeOffset(m[3], Atoi(m[2]))[3]),
     err |-> NoError]

\* the absolute branch, p being what time.Parse returned
AbsoluteTime(p, s) ==
    IF p.ok THEN [t |-> p.t, err |-> NoError]
    ELSE [t |-> ZeroTime, err |-> DateFormatError(s)]

\* the two branches, m being what the regular expression returned
RelativeOrAbsolute(m, s, t) ==
    IF m # << >> THEN RelativeTime(m, t) ELSE AbsoluteTime(TimeParse(s), s)

\* ParseRelativeTime(s), with time.Now() = t
ParseRelativeTime(s, t) == RelativeOrAbsolute(FindStringSubmatch(s), s, t)

\* FormatDate with the layout "2006-1-2": no zero padding of month and day
FormatDate_Unpadded(t) ==
    AppendInt(t.year, 4) \o <<"-">> \o AppendInt(t.month, 1)
        \o <<"-">> \o AppendInt(t.day, 1)

\* time.Time.Format("2006-01-02"), in the time's own zone
FormatDate(t) ==
    AppendInt(t.year, 4) \o <<"-">> \o AppendInt(t.month, 2)
        \o <<"-">> \o AppendInt(t.day, 2)

\* the numeric offset of the local zone, as RFC 3339 prints it
LocalZone == <<"+", "0", "1", ":", "0", "0">>

\* time.Time.Format(time.RFC3339)
FormatRFC3339(t) ==
    FormatDate(t) \o <<"T">>
        \o AppendInt(t.sec \div 3600, 2) \o <<":">>
        \o AppendInt((t.sec \div 60) % 60, 2) \o <<":">>
        \o AppendInt(t.sec % 60, 2)
        \o (IF t.utc THEN <<"Z">> ELSE LocalZone)

\* if err != nil { return "", err }; return t.Format("2006-01-02"), nil
DateOf(r) ==
    IF r.err # NoError THEN [val |-> << >>, err |-> r.err]
    ELSE [val |-> FormatDate(r.t), err |-> NoError]

\* ParseRelativeDate(s), with time.Now() = t
ParseRelativeDate(s, t) == DateOf(ParseRelativeTime(s, t))

\* if err != nil { return "", err }; return t.Format(time.RFC3339), nil
ISOOf(r) ==
    IF r.err # NoError THEN [val |-> << >>, err |-> r.err]
    ELSE [val |-> FormatRFC3339(r.t), err |-> NoError]

\* ParseRelativeISO(s), with time.Now() = t
ParseRelativeISO(s, t) == ISOOf(ParseRelativeTime(s, t))

-----------------------------------------------------------------------------
(* The inputs the parser is exercised on *)

\* the clock values explored: an ordinary day, the last day of a 31-day
\* month, a leap day, the first day of a year
Clocks ==
    { MkTime(2026, 11, 5, 45296, FALSE),
      MkTime(2026, 3, 31, 3600, FALSE),
      MkTime(2024, 2, 29, 86399, FALSE),
      MkTime(2026, 1, 1, 0, FALSE) }

Before(a, b) ==
    DaysFromCivil(a.year, a.month, a.day) < DaysFromCivil(b.year, b.month, b.day)

ExprChars == {"0", "1", "2", "d", "w", "m", "o", "y", "x"}

\* every string over ExprChars of at most MaxLen characters
ShortExprs == UNION {[1..k -> ExprChars] : k \in 0..MaxLen}

YearTexts == {<<"2", "0", "2", "6">>, <<"2", "0", "2", "4">>}
MonthTexts == {<<"0", "0">>, <<"0", "1">>, <<"0", "2">>, <<"1", "2">>, <<"1", "3">>}
DayTexts == {<<"0", "0">>, <<"0", "1">>, <<"1", "5">>, <<"2", "9">>,
             <<"3", "0">>, <<"3", "1">>, <<"3", "2">>}

\* date-shaped strings: valid dates, dates that do not exist, and dates
\* written without zero padding, with another separator or with text after
DateExprs ==
    {y \o <<"-">> \o m \o <<"-">> \o d :
        y \in YearTexts, m \in MonthTexts, d \in DayTexts}
    \cup { <<"2", "0", "2", "6", "-", "1", "-", "1", "5">>,
           <<"2", "0", "2", "6", "/", "0", "1", "/", "1", "5">>,
           <<"2", "0", "2", "6", "-", "0", "1", "-", "1", "5", "x">>,
           <<" ", "2", "0", "2", "6", "-", "0", "1", "-", "1", "5">>,
           <<"0", "1", "-", "1", "5", "-", "2", "0", "2", "6">> }

TimeExprs == ShortExprs \cup DateExprs

-----------------------------------------------------------------------------
(* The api client: ListOptions and buildListQuery *)

\* url.Values.Set: one value under key k, replacing any earlier one
Set(q, k, v) == [x \in (DOMAIN q) \cup {k} |-> IF x = k THEN v ELSE q[x]]

\* url.Values{}
EmptyValues == [x \in {} |-> << >>]

\* SetString without its test: the parameter is sent even when empty
SetString_Always(q, k, v) == Set(q, k, v)

\* SetString passing the value through strings.TrimLeft(v, " ")
SetString_TrimLeft(q, k, v) ==
    IF v = << >> THEN q
    ELSE IF Head(v) = " " THEN Set(q, k, Tail(v)) ELSE Set(q, k, v)

\* if v != "" { q.Set(k, v) }
SetString(q, k, v) == IF v # << >> THEN Set(q, k, v) ELSE q

Str_true == <<"t", "r", "u", "e">>
Str_false == <<"f", "a", "l", "s", "e">>
Str_asc == <<"a", "s", "c">>

\* SetDeleted sending the flag whatever its value
SetDeleted_Both(q, opts) ==
    Set(q, "deleted", IF opts.Deleted THEN Str_true ELSE Str_false)

\* if opts.Deleted { q.Set("deleted", "true") }
SetDeleted(q, opts) == IF opts.Deleted THEN Set(q, "deleted", Str_true) ELSE q

Str_desc == <<"d", "e", "s", "c">>

\* SetSortOrder naming the order in both cases
SetSortOrder_Desc(q, opts) ==
    Set(q, "sortorder", IF opts.Asc THEN Str_asc ELSE Str_desc)

\* if opts.Asc { q.Set("sortorder", "asc") }
SetSortOrder(q, opts) == IF opts.Asc THEN Set(q, "sortorder", Str_asc) ELSE q

\* fmt.Sprintf("%d", n)
FormatInt(n) == IF n < 0 THEN <<"-">> \o Itoa(-n) ELSE Itoa(n)

\* if opts.Size > 0 { q.Set("size", fmt.Sprintf("%d", opts.Size)) }
SetSize(q, opts) == IF opts.Size > 0 THEN Set(q, "size", FormatInt(opts.Size)) ELSE q

\* SetPage testing opts.Page >= 0
SetPage_NonNegative(q, opts) ==
    IF opts.Page >= 0 THEN Set(q, "page", FormatInt(opts.Page)) ELSE q

\* if opts.Page > 0 { q.Set("page", fmt.Sprintf("%d", opts.Page)) }
SetPage(q, opts) == IF opts.Page > 0 THEN Set(q, "page", FormatInt(opts.Page)) ELSE q

\* buildListQuery(opts)
BuildListQuery(opts) ==
    LET q1  == SetString(EmptyValues, "search", opts.Search)
        q2  == SetString(q1, "markers", opts.Markers)
        q3  == SetString(q2, "keywords", opts.Keywords)
        q4  == SetString(q3, "types", opts.Types)
        q5  == SetString(q4, "categories", opts.Categories)
        q6  == SetString(q5, "wfstatus", opts.WFStatus)
        q7  == SetString(q6, "published", opts.Published)
        q8  == SetDeleted(q7, opts)
        q9  == SetString(q8, "owner", opts.Owner)
        q10 == SetString(q9, "userorganisation", opts.UserOrg)
        q11 == SetString(q10, "trcid", opts.TRCID)
        q12 == SetString(q11, "externalid", opts.ExternalID)
        q13 == SetString(q12, "lang", opts.Language)
        q14 == SetString(q13, "lastupdated", opts.UpdatedSince)
        q15 == SetString(q14, "sort", opts.Sort)
        q16 == SetSortOrder(q15, opts)
        q17 == SetSize(q16, opts)
    IN SetPage(q17, opts)

-----------------------------------------------------------------------------
(* The ListOptions values the query builder is exercised on *)

\* the string fields of ListOptions other than Sort, each with the query
\* key buildListQuery sends it under and a sample value
StringFields ==
    {"Search", "Markers", "Keywords", "Types", "Categories", "WFStatus",
     "Published", "Owner", "UserOrg", "TRCID", "ExternalID", "Language",
     "UpdatedSince"}

KeyOf ==
    [Search |-> "search", Markers |-> "markers", Keywords |-> "keywords",
     Types |-> "types", Categories |-> "categories", WFStatus |-> "wfstatus",
     Published |-> "published", Owner |-> "owner",
     UserOrg |-> "userorganisation", TRCID |-> "trcid",
     ExternalID |-> "externalid", Language |-> "lang",
     UpdatedSince |-> "lastupdated"]

Str_modified == <<"m", "o", "d", "i", "f", "i", "e", "d">>
Str_title == <<"t", "i", "t", "l", "e">>
SampleOf ==
    [Search |-> <<"j", "a", "z", "z">>,
     Markers |-> <<"!", "o", "l", "d", ",", "n", "e", "w">>,
     Keywords |-> <<"a", "r", "t">>,
     Types |-> <<"h", "o", "t", "e", "l">>,
     Categories |-> <<"2", ".", "1", ".", "3">>,
     WFStatus |-> <<"d", "r", "a", "f", "t">>,
     Published |-> Str_false,
     Owner |-> <<"a", "n", "n">>,
     UserOrg |-> <<"v", "v", "v">>,
     TRCID |-> <<"t", "1">>,
     ExternalID |-> <<"x", "9">>,
     Language |-> <<"n", "l">>,
     UpdatedSince |-> FormatRFC3339(MkTime(2026, 1, 15, 0, TRUE))]

\* the string fields set to their sample on S and empty elsewhere
StringPart(S) == [f \in StringFields |-> IF f \in S THEN SampleOf[f] ELSE << >>]

SortInputs == {<< >>, Str_modified, Str_title}
SizeInputs == {-1, 0, 25, 100}
PageInputs == {-1, 0, 3}

ListOptionsInputs ==
    {StringPart(S) @@ [Deleted |-> d, Sort |-> so, Asc |-> a, Size |-> sz, Page |-> pg] :
        S \in {T \in SUBSET StringFields : Cardinality(T) <= MaxFilters},
        d \in BOOLEAN, so \in SortInputs, a \in BOOLEAN,
        sz \in SizeInputs, pg \in PageInputs}

-----------------------------------------------------------------------------
(* The api client: event list and event export requests *)

\* if opts.GeoLat != "" && opts.GeoLon != "" { q.Set("geo", lat+","+lon) }
SetGeo(q, opts) ==
    IF opts.GeoLat # << >> /\ opts.GeoLon # << >>
    THEN Set(q, "geo", opts.GeoLat \o <<",">> \o opts.GeoLon)
    ELSE q

\* the event-specific parameters ListEvents and ExportEvents add
EventParams(q, opts) ==
    LET q1 == SetString(q, "eventDateRangeStart", opts.DateFrom)
        q2 == SetString(q1, "eventDateRangeEnd", opts.DateTo)
        q3 == SetString(q2, "locationId", opts.LocationID)
        q4 == SetString(q3, "city", opts.City)
        q5 == SetGeo(q4, opts)
    IN SetString(q5, "geodistance", opts.GeoDistance)

\* the query Client.ListEvents sends
ListEventsQuery(opts) == EventParams(BuildListQuery(opts.ListOptions), opts)

Str_excel == <<"e", "x", "c", "e", "l">>
Str_uitkrant == <<"u", "i", "t", "k", "r", "a", "n", "t">>

\* ExportEventsQuery without the default: format is sent only when given
ExportEventsQuery_NoDefault(opts, exportOpts) ==
    EventParams(SetString(SetString(BuildListQuery(opts.ListOptions),
                                    "format", exportOpts.Format),
                          "export_propertyids", exportOpts.PropertyIDs),
                opts)

\* the query Client.ExportEvents sends
ExportEventsQuery(opts, exportOpts) ==
    LET format == IF exportOpts.Format = << >> THEN Str_excel ELSE exportOpts.Format
        q1 == Set(BuildListQuery(opts.ListOptions), "format", format)
        q2 == SetString(q1, "export_propertyids", exportOpts.PropertyIDs)
    IN EventParams(q2, opts)

-----------------------------------------------------------------------------
(* The api client: list and export requests of the other resource kinds *)

\* the query ListLocations, ListRoutes, ListVenues and ListEventGroups send:
\* q := buildListQuery(opts), each to its own endpoint
ListLocationsQuery(opts) == BuildListQuery(opts)
ListRoutesQuery(opts) == BuildListQuery(opts)
ListVenuesQuery(opts) == BuildListQuery(opts)
ListEventGroupsQuery(opts) == BuildListQuery(opts)

\* ExportLocationsQuery built without the filters of opts
ExportLocationsQuery_Unfiltered(opts, exportOpts) ==
    SetString(Set(EmptyValues, "format", Str_excel),
              "export_propertyids", exportOpts.PropertyIDs)

\* the query Client.ExportLocations sends; exportOpts.Format is not read
ExportLocationsQuery(opts, exportOpts) ==
    SetString(Set(BuildListQuery(opts), "format", Str_excel),
              "export_propertyids", exportOpts.PropertyIDs)

\* ExportVenuesQuery with the key spelled as for the other kinds
ExportVenuesQuery_Spelled(opts, exportOpts) ==
    SetString(Set(BuildListQuery(opts), "format", Str_excel),
              "export_propertyids", exportOpts.PropertyIDs)

\* the query Client.ExportVenues sends: the key is "export_properyids"
ExportVenuesQuery(opts, exportOpts) ==
    SetString(Set(BuildListQuery(opts), "format", Str_excel),
              "export_properyids", exportOpts.PropertyIDs)

\* the query Client.ExportRoutes sends; it takes no ExportOptions
ExportRoutesQuery(opts) == Set(BuildListQuery(opts), "format", Str_excel)

\* the query Client.ExportEventGroups sends; it takes no ExportOptions
ExportEventGroupsQuery(opts) == Set(BuildListQuery(opts), "format", Str_excel)

-----------------------------------------------------------------------------
(* The options the list and export functions are exercised on *)

MarkersInputs ==
    {<< >>,
     <<"!", "a", "r", "c", "h", "i", "v", "e", "d", ",", "f", "e", "a", "t", "u", "r", "e", "d">>,
     <<" ", "b", ",", "!", "a", " ">>}

\* the fields that are not plain strings: all zero, or all set
PresetOf ==
    [unset |-> [Deleted |-> FALSE, Sort |-> << >>, Asc |-> FALSE, Size |-> 0, Page |-> 0],
     set |-> [Deleted |-> TRUE, Sort |-> Str_title, Asc |-> TRUE, Size |-> 100, Page |-> 3]]

\* ListOptions values with every markers input
FilterInputs ==
    {[StringPart(S) EXCEPT !.Markers = mk] @@ PresetOf[p] :
        S \in {T \in SUBSET (StringFields \ {"Markers"}) : Cardinality(T) <= MaxFilters},
        mk \in MarkersInputs, p \in {"unset", "set"}}

\* the event-specific fields: all empty, or all set
EventPartOf ==
    [unset |-> [DateFrom |-> << >>, DateTo |-> << >>, LocationID |-> << >>,
                City |-> << >>, GeoLat |-> << >>, GeoLon |-> << >>,
                GeoDistance |-> << >>],
     set |-> [DateFrom |-> <<"2", "0", "2", "6", "-", "0", "3", "-", "0", "1">>,
              DateTo |-> <<"2", "0", "2", "6", "-", "0", "3", "-", "3", "1">>,
              LocationID |-> <<"l", "o", "c", "7">>,
              City |-> <<"U", "t", "r", "e", "c", "h", "t">>,
              GeoLat |-> <<"5", "2", ".", "3", "7">>,
              GeoLon |-> <<"4", ".", "8", "9">>,
              GeoDistance |-> <<"1", "0", "k", "m">>]]

EventFilterInputs ==
    {[ListOptions |-> o] @@ EventPartOf[p] :
        o \in FilterInputs, p \in {"unset", "set"}}

ExportOptionsInputs ==
    {[PropertyIDs |-> ids, Format |-> f] :
        ids \in {<< >>, <<"1", "2", "3", "4", "5">>,
                 <<"1", "2", "3", "4", "5", ",", "6", "7", "8", "9", "0">>},
        f \in {<< >>, Str_excel, Str_uitkrant}}

\* one call of Client.doRequest
Request(method, path, q) == [method |-> method, path |-> path, query |-> q]

-----------------------------------------------------------------------------
(* package strings *)

WhiteSpace == {" ", "\t", "\n", "\r"}

\* strings.TrimSpace
RECURSIVE TrimSpace(_)
TrimSpace(s) ==
    IF s = << >> THEN s
    ELSE IF s[1] \in WhiteSpace THEN TrimSpace(Tail(s))
    ELSE IF s[Len(s)] \in WhiteSpace THEN TrimSpace(SubSeq(s, 1, Len(s) - 1))
    ELSE s

\* strings.SplitN(s, ",", 2): the text before the first comma and the text
\* after it, or s alone when it holds no comma
SplitN2(s) ==
    LET at == {i \in 1..Len(s) : s[i] = ","}
    IN IF at = {} THEN <<s>>
       ELSE LET i == CHOOSE j \in at : \A k \in at : j <= k
            IN <<SubSeq(s, 1, i - 1), SubSeq(s, i + 1, Len(s))>>

-----------------------------------------------------------------------------
(* cmd: events list and events export *)

NoCmdError == [kind |-> "none", flag |-> "", input |-> << >>]

CmdError(kind, flag, input) == [kind |-> kind, flag |-> flag, input |-> input]

\* the ListOptions literal both Run methods start from; export has no size
\* and page flags and leaves them zero
BaseListOptions(c, size, page) ==
    [Search |-> c.Search, Markers |-> c.Markers, Keywords |-> c.Keywords,
     Types |-> c.Types, Categories |-> c.Categories, WFStatus |-> c.WFStatus,
     Published |-> c.Published, Deleted |-> c.Deleted, Owner |-> c.Owner,
     UserOrg |-> c.UserOrg, TRCID |-> c.TRCID, ExternalID |-> c.ExternalID,
     Language |-> c.Language, UpdatedSince |-> << >>, Sort |-> c.Sort,
     Asc |-> c.Asc, Size |-> size, Page |-> page]

BaseEventOptions(c, size, page) ==
    [ListOptions |-> BaseListOptions(c, size, page),
     DateFrom |-> << >>, DateTo |-> << >>,
     LocationID |-> c.LocationID, City |-> c.City,
     GeoLat |-> << >>, GeoLon |-> << >>, GeoDistance |-> << >>]

\* Run's flag parsing is a sequence of steps.  Each takes v, the options
\* filled in so far and the error returned so far; a step after a return
\* changes nothing.

Returned(v) == v.err # NoCmdError

\* iso, err := ParseRelativeISO(c.UpdatedSince); on an error return
\* "--updated-since: err", else opts.ListOptions.UpdatedSince = iso
GotUpdatedSince(v, r) ==
    IF r.err # NoError
    THEN [v EXCEPT !.err = CmdError("DATE_FORMAT_ERROR", "--updated-since", r.err.input)]
    ELSE [v EXCEPT !.opts.ListOptions.UpdatedSince = r.val]

StepUpdatedSince(c, v, t) ==
    IF Returned(v) \/ c.UpdatedSince = << >> THEN v
    ELSE GotUpdatedSince(v, ParseRelativeISO(c.UpdatedSince, t))

\* d, err := ParseRelativeDate(c.DateFrom); opts.DateFrom = d
GotDateFrom(v, r) ==
    IF r.err # NoError
    THEN [v EXCEPT !.err = CmdError("DATE_FORMAT_ERROR", "--date-from", r.err.input)]
    ELSE [v EXCEPT !.opts.DateFrom = r.val]

StepDateFrom(c, v, t) ==
    IF Returned(v) \/ c.DateFrom = << >> THEN v
    ELSE GotDateFrom(v, ParseRelativeDate(c.DateFrom, t))

\* d, err := ParseRelativeDate(c.DateTo); opts.DateTo = d
GotDateTo(v, r) ==
    IF r.err # NoError
    THEN [v EXCEPT !.err = CmdError("DATE_FORMAT_ERROR", "--date-to", r.err.input)]
    ELSE [v EXCEPT !.opts.DateTo = r.val]

StepDateTo(c, v, t) ==
    IF Returned(v) \/ c.DateTo = << >> THEN v
    ELSE GotDateTo(v, ParseRelativeDate(c.DateTo, t))

\* parts := strings.SplitN(c.Geo, ",", 2); if len(parts) != 2 return the
\* format error, else GeoLat, GeoLon = the trimmed parts
GotGeo(c, v, parts) ==
    IF Len(parts) # 2
    THEN [v EXCEPT !.err = CmdError("GEO_FORMAT_ERROR", "--geo", c.Geo)]
    ELSE [v EXCEPT !.opts.GeoLat = TrimSpace(parts[1]),
                   !.opts.GeoLon = TrimSpace(parts[2])]

StepGeo(c, v) ==
    IF Returned(v) \/ c.Geo = << >> THEN v ELSE GotGeo(c, v, SplitN2(c.Geo))

\* inside if c.GeoDistance != "": if c.Geo == "" { return error }
GeoDistanceRejected(c) == c.Geo = << >>

StepGeoDistance(c, v) ==
    IF Returned(v) \/ c.GeoDistance = << >> THEN v
    ELSE IF GeoDistanceRejected(c)
    THEN [v EXCEPT !.err = CmdError("GEO_FILTER_INVALID", "--geo-distance", c.GeoDistance)]
    ELSE [v EXCEPT !.opts.GeoDistance = c.GeoDistance]

\* The flag parsing both Run methods perform, in the order of the code:
\* --updated-since, --date-from, --date-to, --geo, --geo-distance.  Every
\* parser call reads the clock; the run is short and t stands for all of
\* its readings.
ParseEventFlags(c, v, t) ==
    StepGeoDistance(c,
        StepGeo(c,
            StepDateTo(c,
                StepDateFrom(c,
                    StepUpdatedSince(c, v, t), t), t)))

\* EventsListCmd.Run up to the call of client.ListEvents
EventsListOptions(c, t) ==
    ParseEventFlags(c, [opts |-> BaseEventOptions(c, c.Size, c.Page),
                        err |-> NoCmdError], t)

\* EventsListIssued with client.ListEvents called ahead of the
\* --geo-distance check
EventsListIssued_Early(v) ==
    IF v.err.kind \in {"none", "GEO_FILTER_INVALID"}
    THEN <<Request("GET", "/events", ListEventsQuery(v.opts))>>
    ELSE << >>

\* the requests EventsListCmd.Run issues, v being where its flag parsing
\* ended: client.ListEvents is called once no step has returned an error
EventsListIssued(v) ==
    IF Returned(v) THEN << >>
    ELSE <<Request("GET", "/events", ListEventsQuery(v.opts))>>

\* UitkrantRangeMissing with && for ||: only a range missing at both ends
UitkrantRangeMissing_Both(c) ==
    c.Format = Str_uitkrant /\ (c.DateFrom = << >> /\ c.DateTo = << >>)

\* c.Format == "uitkrant" && (c.DateFrom == "" || c.DateTo == "")
UitkrantRangeMissing(c) ==
    c.Format = Str_uitkrant /\ (c.DateFrom = << >> \/ c.DateTo = << >>)

\* the first statement of EventsExportCmd.Run
StepFormat(c, v) ==
    IF UitkrantRangeMissing(c)
    THEN [v EXCEPT !.err = CmdError("EXPORT_FORMAT_REQUIRES_RANGE", "--format", c.Format)]
    ELSE v

\* EventsExportCmd.Run up to the call of client.ExportEvents
EventsExportOptions(c, t) ==
    ParseEventFlags(c, StepFormat(c, [opts |-> BaseEventOptions(c, 0, 0),
                                      err |-> NoCmdError]), t)

\* the ExportOptions literal of EventsExportCmd.Run
EventsExportOpts(c) == [PropertyIDs |-> c.PropertyIDs, Format |-> c.Format]

\* the requests EventsExportCmd.Run issues, v being where its flag parsing
\* ended
EventsExportIssued(c, v) ==
    IF Returned(v) THEN << >>
    ELSE <<Request("GET", "/events", ExportEventsQuery(v.opts, EventsExportOpts(c)))>>

-----------------------------------------------------------------------------
(* The command lines the two commands are exercised on *)

\* the plain string flags that are set together, when any are
FlagSets == {{}, {"Search", "WFStatus", "Published"}}

UpdatedSinceArgs == {<< >>, <<"3", "d">>, <<"t", "o", "m", "o", "r", "r", "o", "w">>}
DateArgs == {<< >>, <<"0", "d">>, <<"2", "w">>, <<"2", "0", "2", "6", "-", "0", "3", "-", "0", "1">>, <<"1", "x">>}
GeoArgs == {<< >>, <<"5", "2", ".", "3", "7", ",", "4", ".", "8", "9">>, <<"5", "2", ".", "3", "7", ",", " ", "4", ".", "8", "9">>, <<"5", "2", ".", "3", "7", ",">>, <<",", "4", ".", "8", "9">>, <<"5", "2", ".", "3", "7">>}
GeoDistanceArgs == {<< >>, <<"1", "0", "k", "m">>}

\* events list: --sort is an enum defaulting to modified, -l to 25, -p to 0
EventsListInputs ==
    {[UpdatedSince |-> us, DateFrom |-> df, DateTo |-> dt, Geo |-> g,
      GeoDistance |-> gd,
      LocationID |-> (IF S = {} THEN << >> ELSE <<"l", "o", "c", "7">>),
      City |-> (IF S = {} THEN << >> ELSE <<"A", "m", "s", "t", "e", "r", "d", "a", "m">>),
      Deleted |-> (S # {}), Asc |-> (S # {}), JSON |-> (S # {}),
      Sort |-> (IF S = {} THEN Str_modified ELSE Str_title),
      Size |-> (IF S = {} THEN 25 ELSE 50),
      Page |-> (IF S = {} THEN 0 ELSE 3)] @@ StringPart(S) :
        S \in FlagSets, us \in UpdatedSinceArgs, df \in DateArgs,
        dt \in DateArgs, g \in GeoArgs, gd \in GeoDistanceArgs}

\* events export: --format is an enum of excel, uitkrant and the empty
\* string; --sort defaults to the empty string
EventsExportInputs ==
    {[UpdatedSince |-> us, DateFrom |-> df, DateTo |-> dt, Geo |-> g,
      GeoDistance |-> gd, Format |-> f,
      PropertyIDs |-> (IF S = {} THEN << >> ELSE <<"1", "2", "3", "4", "5">>),
      Output |-> <<"o", "u", "t", ".", "x", "l", "s", "x">>,
      LocationID |-> (IF S = {} THEN << >> ELSE <<"l", "o", "c", "7">>),
      City |-> (IF S = {} THEN << >> ELSE <<"A", "m", "s", "t", "e", "r", "d", "a", "m">>),
      Deleted |-> (S # {}), Asc |-> (S # {}),
      Sort |-> (IF S = {} THEN << >> ELSE Str_title)] @@ StringPart(S) :
        S \in FlagSets, us \in UpdatedSinceArgs, df \in DateArgs,
        dt \in DateArgs, g \in GeoArgs, gd \in GeoDistanceArgs,
        f \in {<< >>, Str_excel, Str_uitkrant}}

-----------------------------------------------------------------------------
(* One execution of a command *)

ParseIdle ==
    /\ parseFn = ""
    /\ parseIn = << >>
    /\ parseOut = [t |-> ZeroTime, err |-> NoError]
    /\ parseAt = ZeroTime

QueryIdle ==
    /\ queryFn = ""
    /\ queryIn = << >>
    /\ queryOut = EmptyValues

CmdIdle ==
    /\ pc = "idle"
    /\ cmdName = ""
    /\ cmdArgs = << >>
    /\ cmdErr = NoCmdError
    /\ requests = << >>

ResIdle ==
    /\ resFn = ""
    /\ resIn = << >>
    /\ resOut = << >>

\* the server holds no document under the id
NoDoc == << >>

\* no response body was received
NoBody == [kind |-> "none", doc |-> NoDoc]

SrvIdle ==
    /\ server = NoDoc
    /\ body = NoBody
    /\ initial = NoDoc
    /\ external = << >>
    /\ stdout = << >>

Init ==
    /\ now \in Clocks
    /\ ParseIdle
    /\ QueryIdle
    /\ CmdIdle
    /\ ResIdle
    /\ SrvIdle

\* a command has run up to its first wait: it returned err without calling
\* the client, or it issued the requests and waits for the response
Started(name, c, err, issued) ==
    /\ cmdName' = name
    /\ cmdArgs' = c
    /\ cmdErr' = err
    /\ requests' = requests \o issued
    /\ pc' = IF issued = << >> THEN "done" ELSE "awaiting"

ListStarted(c, v) == Started("events list", c, v.err, EventsListIssued(v))

ExportStarted(c, v) == Started("events export", c, v.err, EventsExportIssued(c, v))

\* tff events list ...
EventsListRun ==
    /\ pc = "idle"
    /\ \E c \in EventsListInputs : ListStarted(c, EventsListOptions(c, now))
    /\ UNCHANGED <<srvVars, resVars, now, parseVars, queryVars>>

\* tff events export ...
EventsExportRun ==
    /\ pc = "idle"
    /\ \E c \in EventsExportInputs : ExportStarted(c, EventsExportOptions(c, now))
    /\ UNCHANGED <<srvVars, resVars, now, parseVars, queryVars>>

\* doRequest returns: the body of a response below 400, or an error (the
\* transport failed or the status was 400 or more), which Run returns
DoRequestReturns ==
    /\ pc = "awaiting"
    /\ \E failed \in BOOLEAN :
        cmdErr' = IF failed THEN CmdError("API_ERROR", "", << >>) ELSE NoCmdError
    /\ pc' = "done"
    /\ UNCHANGED <<srvVars, resVars, now, parseVars, queryVars, cmdName, cmdArgs, requests>>

Next ==
    \/ EventsListRun
    \/ EventsExportRun
    \/ DoRequestReturns

Spec == Init /\ [][Next]_vars

-----------------------------------------------------------------------------
(* The query builder called on its own *)

InitQuery ==
    /\ now = MkTime(2026, 11, 5, 45296, FALSE)
    /\ ParseIdle
    /\ QueryIdle
    /\ CmdIdle
    /\ ResIdle
    /\ SrvIdle

CallBuildListQuery ==
    /\ queryFn = ""
    /\ \E opts \in ListOptionsInputs :
        /\ queryIn' = opts
        /\ queryOut' = BuildListQuery(opts)
    /\ queryFn' = "buildListQuery"
    /\ UNCHANGED <<srvVars, resVars, now, parseVars, cmdVars>>

\* one call of a list or export function of the client, up to the query it
\* hands to doRequest
QueryCalled(fn, in, out) ==
    /\ queryFn' = fn
    /\ queryIn' = in
    /\ queryOut' = out
    /\ UNCHANGED <<srvVars, resVars, now, parseVars, cmdVars>>

CallListEvents ==
    /\ queryFn = ""
    /\ \E opts \in EventFilterInputs :
            QueryCalled("ListEvents", [opts |-> opts], ListEventsQuery(opts))

CallListLocations ==
    /\ queryFn = ""
    /\ \E opts \in FilterInputs :
            QueryCalled("ListLocations", [opts |-> opts], ListLocationsQuery(opts))

CallListRoutes ==
    /\ queryFn = ""
    /\ \E opts \in FilterInputs :
            QueryCalled("ListRoutes", [opts |-> opts], ListRoutesQuery(opts))

CallListVenues ==
    /\ queryFn = ""
    /\ \E opts \in FilterInputs :
            QueryCalled("ListVenues", [opts |-> opts], ListVenuesQuery(opts))

CallListEventGroups ==
    /\ queryFn = ""
    /\ \E opts \in FilterInputs :
            QueryCalled("ListEventGroups", [opts |-> opts], ListEventGroupsQuery(opts))

CallExportEvents ==
    /\ queryFn = ""
    /\ \E opts \in EventFilterInputs, exportOpts \in ExportOptionsInputs :
            QueryCalled("ExportEvents", [opts |-> opts, exportOpts |-> exportOpts],
                        ExportEventsQuery(opts, exportOpts))

CallExportLocations ==
    /\ queryFn = ""
    /\ \E opts \in FilterInputs, exportOpts \in ExportOptionsInputs :
            QueryCalled("ExportLocations", [opts |-> opts, exportOpts |-> exportOpts],
                        ExportLocationsQuery(opts, exportOpts))

CallExportVenues ==
    /\ queryFn = ""
    /\ \E opts \in FilterInputs, exportOpts \in ExportOptionsInputs :
            QueryCalled("ExportVenues", [opts |-> opts, exportOpts |-> exportOpts],
                        ExportVenuesQuery(opts, exportOpts))

CallExportRoutes ==
    /\ queryFn = ""
    /\ \E opts \in FilterInputs :
            QueryCalled("ExportRoutes", [opts |-> opts], ExportRoutesQuery(opts))

CallExportEventGroups ==
    /\ queryFn = ""
    /\ \E opts \in FilterInputs :
            QueryCalled("ExportEventGroups", [opts |-> opts], ExportEventGroupsQuery(opts))

NextQuery ==
    \/ CallBuildListQuery
    \/ CallListEvents
    \/ CallListLocations
    \/ CallListRoutes
    \/ CallListVenues
    \/ CallListEventGroups
    \/ CallExportEvents
    \/ CallExportLocations
    \/ CallExportVenues
    \/ CallExportRoutes
    \/ CallExportEventGroups

SpecQuery == InitQuery /\ [][NextQuery]_vars

-----------------------------------------------------------------------------
(* The parser called on its own *)

InitTime ==
    /\ now \in Clocks
    /\ ParseIdle
    /\ QueryIdle
    /\ CmdIdle
    /\ ResIdle
    /\ SrvIdle

\* the wall clock advances between calls
Tick ==
    /\ \E c \in Clocks : Before(now, c) /\ now' = c
    /\ UNCHANGED <<srvVars, resVars, parseVars, queryVars, cmdVars>>

\* the result of entry point fn on s when time.Now() = t; ParseRelativeTime
\* returns a time, the other two a string
ParseCall(fn, s, t) ==
    CASE fn = "ParseRelativeTime" -> ParseRelativeTime(s, t)
      [] fn = "ParseRelativeDate" -> ParseRelativeDate(s, t)
      [] fn = "ParseRelativeISO" -> ParseRelativeISO(s, t)

CallParseRelativeTime ==
    /\ parseFn = ""
    /\ \E s \in TimeExprs :
        /\ parseFn' = "ParseRelativeTime"
        /\ parseIn' = s
        /\ parseOut' = ParseRelativeTime(s, now)
    /\ parseAt' = now
    /\ UNCHANGED <<srvVars, resVars, now, queryVars, cmdVars>>

CallParseRelativeDate ==
    /\ parseFn = ""
    /\ \E s \in TimeExprs :
        /\ parseFn' = "ParseRelativeDate"
        /\ parseIn' = s
        /\ parseOut' = ParseRelativeDate(s, now)
    /\ parseAt' = now
    /\ UNCHANGED <<srvVars, resVars, now, queryVars, cmdVars>>

CallParseRelativeISO ==
    /\ parseFn = ""
    /\ \E s \in TimeExprs :
        /\ parseFn' = "ParseRelativeISO"
        /\ parseIn' = s
        /\ parseOut' = ParseRelativeISO(s, now)
    /\ parseAt' = now
    /\ UNCHANGED <<srvVars, resVars, now, queryVars, cmdVars>>

\* the same call made again, at the clock value of that later moment
CallAgain ==
    /\ parseFn # ""
    /\ parseAt # now
    /\ parseOut' = ParseCall(parseFn, parseIn, now)
    /\ parseAt' = now
    /\ UNCHANGED <<srvVars, resVars, now, parseFn, parseIn, queryVars, cmdVars>>

NextTime ==
    \/ Tick
    \/ CallParseRelativeTime
    \/ CallParseRelativeDate
    \/ CallParseRelativeISO
    \/ CallAgain

SpecTime == InitTime /\ [][NextTime]_vars

-----------------------------------------------------------------------------
(* The api client: resource kinds and their endpoints *)

UpperLetters ==
    <<"A", "B", "C", "D", "E", "F", "G", "H", "I", "J", "K", "L", "M",
      "N", "O", "P", "Q", "R", "S", "T", "U", "V", "W", "X", "Y", "Z">>

LowerLetters ==
    <<"a", "b", "c", "d", "e", "f", "g", "h", "i", "j", "k", "l", "m",
      "n", "o", "p", "q", "r", "s", "t", "u", "v", "w", "x", "y", "z">>

\* unicode.ToLower on the characters of this model
LowerOf(c) ==
    IF \E i \in 1..26 : UpperLetters[i] = c
    THEN LowerLetters[CHOOSE i \in 1..26 : UpperLetters[i] = c]
    ELSE c

\* unicode.ToUpper on the characters of this model
UpperOf(c) ==
    IF \E i \in 1..26 : LowerLetters[i] = c
    THEN UpperLetters[CHOOSE i \in 1..26 : LowerLetters[i] = c]
    ELSE c

\* ToLower left out: the switch is on resourceType itself
ToLower_None(s) == s

\* strings.ToLower
ToLower(s) == [i \in 1..Len(s) |-> LowerOf(s[i])]

Str_event == <<"e", "v", "e", "n", "t">>
Str_events == <<"e", "v", "e", "n", "t", "s">>
Str_location == <<"l", "o", "c", "a", "t", "i", "o", "n">>
Str_locations == <<"l", "o", "c", "a", "t", "i", "o", "n", "s">>
Str_route == <<"r", "o", "u", "t", "e">>
Str_routes == <<"r", "o", "u", "t", "e", "s">>
Str_venue == <<"v", "e", "n", "u", "e">>
Str_venues == <<"v", "e", "n", "u", "e", "s">>
Str_eventgroup == <<"e", "v", "e", "n", "t", "g", "r", "o", "u", "p">>
Str_eventgroups == <<"e", "v", "e", "n", "t", "g", "r", "o", "u", "p", "s">>

\* the switch of ResourceTypeToEndpoint on the lower-cased name l, with
\* resourceType returned in the default case
EndpointSwitch(l, resourceType) ==
    CASE l \in {Str_event, Str_events} -> Str_events
      [] l \in {Str_location, Str_locations} -> Str_locations
      [] l \in {Str_route, Str_routes} -> Str_routes
      [] l \in {Str_venue, Str_venues} -> Str_venues
      [] l \in {Str_eventgroup, Str_eventgroups} -> Str_eventgroups
      [] OTHER -> resourceType

\* ResourceTypeToEndpoint(resourceType)
ResourceTypeToEndpoint(resourceType) ==
    EndpointSwitch(ToLower(resourceType), resourceType)

\* the spellings the switch names
KindSpellings ==
    {Str_event, Str_events, Str_location, Str_locations, Str_route,
     Str_routes, Str_venue, Str_venues, Str_eventgroup, Str_eventgroups}

\* w with the letters at the positions U in upper case
Cased(w, U) == [i \in 1..Len(w) |-> IF i \in U THEN UpperOf(w[i]) ELSE w[i]]

\* every spelling in every mix of upper and lower case, and names the
\* switch does not know: empty, misspelled, padded, of other commands
ResourceTypeInputs ==
    {Cased(w, U) : w \in {Str_event, Str_route}, U \in SUBSET (1..5)}
    \cup {Cased(w, U) : w \in {Str_events, Str_routes, Str_venues}, U \in SUBSET (1..6)}
    \cup {Cased(Str_venue, U) : U \in SUBSET (1..5)}
    \cup {Cased(Str_location, U) : U \in SUBSET (1..8)}
    \cup {Cased(Str_locations, U) : U \in SUBSET (1..9)}
    \cup {Cased(Str_eventgroup, U) : U \in SUBSET (1..10)}
    \cup {Cased(Str_eventgroups, U) : U \in SUBSET (1..11)}
    \cup {<< >>, <<"e", "v", "n", "t">>, <<"E", "v", "e", "n", "t", " ">>, <<" ", "e", "v", "e", "n", "t", "s">>, <<"e", "v", "e", "n", "t", "s", "s">>, <<"E", "v", "e", "n", "t", "G", "r", "o", "u", "p", "S", "1">>, <<"d", "i", "c", "t", "i", "o", "n", "a", "r", "y">>, <<"F", "o", "o">>, <<"e", "v", "e", "n", "t", "-", "g", "r", "o", "u", "p">>}

-----------------------------------------------------------------------------
(* encoding/json: a JSON value, and json.Unmarshal into the Go types the   *)
(* helpers decode into                                                     *)

\* a JSON value: its type, the text of a string, number or boolean, and
\* the elements of an array or the members of an object
JValue(type, text, items) == [type |-> type, s |-> text, items |-> items]

JNull == JValue("null", << >>, << >>)
JString(text) == JValue("string", text, << >>)
JNumber(text) == JValue("number", text, << >>)
JBool(text) == JValue("bool", text, << >>)
JArray(items) == JValue("array", << >>, items)
JObject(members) == JValue("object", << >>, members)

\* one member of a JSON object
JMember(key, val) == [key |-> key, val |-> val]

\* json.Unmarshal(data, &s) with s a string: a JSON string is stored, null
\* has no effect and is no error, any other value is an error
UnmarshalString(v) ==
    CASE v.type = "string" -> [ok |-> TRUE, val |-> v.s]
      [] v.type = "null" -> [ok |-> TRUE, val |-> << >>]
      [] OTHER -> [ok |-> FALSE, val |-> << >>]

\* json.Unmarshal(data, &arr) with arr a []string: null leaves arr nil, an
\* array is decoded element by element as UnmarshalString does (a null
\* element stays ""), and one element of another type is an error
UnmarshalStringSlice(v) ==
    CASE v.type = "null" -> [ok |-> TRUE, val |-> << >>]
      [] v.type = "array" ->
            IF \A i \in 1..Len(v.items) : UnmarshalString(v.items[i]).ok
            THEN [ok |-> TRUE,
                  val |-> [i \in 1..Len(v.items) |-> UnmarshalString(v.items[i]).val]]
            ELSE [ok |-> FALSE, val |-> << >>]
      [] OTHER -> [ok |-> FALSE, val |-> << >>]

\* the members of an object that set the struct field tagged name: the
\* decoder matches the key to the tag with letter case ignored
MembersFor(v, name) ==
    SelectSeq(v.items, LAMBDA m : ToLower(m.key) = name)

\* json.Unmarshal(data, &p) with p a struct of one string field tagged
\* name: null has no effect, an object sets the field from its matching
\* members in order (a null member has no effect, a member of another type
\* is an error) and ignores the other members, any other value is an error
UnmarshalStruct(v, name) ==
    CASE v.type = "null" -> [ok |-> TRUE, val |-> << >>]
      [] v.type = "object" ->
            LET ms == MembersFor(v, name)
                set == SelectSeq(ms, LAMBDA m : m.val.type = "string")
            IN IF \A i \in 1..Len(ms) : UnmarshalString(ms[i].val).ok
               THEN [ok |-> TRUE,
                     val |-> IF set = << >> THEN << >> ELSE set[Len(set)].val.s]
               ELSE [ok |-> FALSE, val |-> << >>]
      [] OTHER -> [ok |-> FALSE, val |-> << >>]

-----------------------------------------------------------------------------
(* The api client: FlexStringSlice *)

\* Split keeping the string whole
Split_Whole(s, sep) == <<s>>

\* strings.Split(s, sep) for a separator of one character
RECURSIVE Split(_, _)
Split(s, sep) ==
    IF \A i \in 1..Len(s) : s[i] # sep THEN <<s>>
    ELSE LET k == CHOOSE i \in 1..Len(s) :
                      s[i] = sep /\ \A j \in 1..(i - 1) : s[j] # sep
         IN <<SubSeq(s, 1, k - 1)>> \o Split(SubSeq(s, k + 1, Len(s)), sep)

\* the second attempt of UnmarshalJSON, t being what decoding data into a
\* string returned
FlexFromString(t) ==
    IF t.ok /\ t.val # << >> THEN Split(t.val, ",") ELSE << >>

\* the two attempts, a being what decoding data into a []string returned
FlexFromSlice(a, v) ==
    IF a.ok THEN a.val ELSE FlexFromString(UnmarshalString(v))

\* FlexStringSlice.UnmarshalJSON(data): the slice it leaves in *f and the
\* error it returns, which is nil on every path
UnmarshalJSON(v) ==
    [f |-> FlexFromSlice(UnmarshalStringSlice(v), v), err |-> "nil"]

\* how many elements the enumerated JSON arrays have at most
MaxItems == 2

JsonElements ==
    {JString(<<"a">>), JString(<<"b", ",", "c">>), JString(<< >>), JNull,
     JNumber(<<"7">>), JArray(<< >>)}

JsonArrays == UNION {[1..n -> JsonElements] : n \in 0..MaxItems}

\* the values a markers field is decoded from
MarkersValues ==
    {JArray(items) : items \in JsonArrays}
    \cup {JString(t) : t \in {<< >>, <<"a">>, <<"a", ",", "b", ",", "c">>, <<",">>,
                              <<"a", ",", ",", "b">>, <<" ", "a", " ", ",", "b">>}}
    \cup {JNull, JNumber(<<"7">>), JBool(<<"t", "r", "u", "e">>), JObject(<< >>),
          JObject(<<JMember(<<"a">>, JString(<<"b">>))>>)}

-----------------------------------------------------------------------------
(* The api client: ContactInfo *)

\* a json.RawMessage that is nil: the field was not in the document
NilRaw == JValue("absent", << >>, << >>)

Str_number == <<"n", "u", "m", "b", "e", "r">>
Str_email == <<"e", "m", "a", "i", "l">>

\* the last attempt: t is what decoding the raw field into a string
\* returned
ContactFromString(t) == IF t.ok /\ t.val # << >> THEN t.val ELSE << >>

\* the attempts on the singular field raw, p being what decoding it into
\* the struct returned
ContactFromRaw(p, raw) ==
    IF p.ok /\ p.val # << >> THEN p.val
    ELSE ContactFromString(UnmarshalString(raw))

\* if raw != nil { ... }; return ""
ContactFromField(raw, name) ==
    IF raw # NilRaw THEN ContactFromRaw(UnmarshalStruct(raw, name), raw) ELSE << >>

\* GetPhone returning the first entry of the array whenever there is one
GetPhone_FirstEntryAlways(ci) ==
    IF Len(ci.Phones) > 0 THEN ci.Phones[1].Number
    ELSE ContactFromField(ci.Phone, Str_number)

\* ContactInfo.GetPhone
GetPhone(ci) ==
    IF Len(ci.Phones) > 0 /\ ci.Phones[1].Number # << >>
    THEN ci.Phones[1].Number
    ELSE ContactFromField(ci.Phone, Str_number)

\* ContactInfo.GetEmail
GetEmail(ci) ==
    IF Len(ci.Mails) > 0 /\ ci.Mails[1].Email # << >>
    THEN ci.Mails[1].Email
    ELSE ContactFromField(ci.Mail, Str_email)

\* the entries of the structured arrays hold one of these
PhoneTexts == {<< >>, <<"0", "1", "0">>, <<"0", "1", "1">>}
MailTexts == {<< >>, <<"a", "@", "x">>, <<"b", "@", "x">>}

\* what the singular field holds: nothing, null, a bare string, an object
\* with the value under its key (in either letter case, empty, null, not a
\* string, or missing), or a value of another shape
RawInputs(key, text) ==
    {NilRaw, JNull, JString(<< >>), JString(text), JNumber(<<"7">>),
     JBool(<<"t", "r", "u", "e">>), JArray(<<JString(text)>>),
     JObject(<< >>),
     JObject(<<JMember(key, JString(text))>>),
     JObject(<<JMember(Cased(key, {1}), JString(text))>>),
     JObject(<<JMember(key, JString(<< >>))>>),
     JObject(<<JMember(key, JNull)>>),
     JObject(<<JMember(key, JNumber(<<"7">>))>>),
     JObject(<<JMember(<<"x">>, JString(text))>>)}

MaxEntries == 2

\* the ContactInfo values GetPhone is called on; the mail fields are set
PhoneInputs ==
    {[Phones |-> ps, Phone |-> raw,
      Mails |-> <<[Email |-> <<"a", "@", "x">>]>>, Mail |-> JString(<<"c", "@", "x">>)] :
        ps \in UNION {[1..n -> [Number : PhoneTexts]] : n \in 0..MaxEntries},
        raw \in RawInputs(Str_number, <<"0", "2", "0">>)}

\* the ContactInfo values GetEmail is called on; the phone fields are set
MailInputs ==
    {[Phones |-> <<[Number |-> <<"0", "1", "0">>]>>, Phone |-> JString(<<"0", "2", "0">>),
      Mails |-> ms, Mail |-> raw] :
        ms \in UNION {[1..n -> [Email : MailTexts]] : n \in 0..MaxEntries},
        raw \in RawInputs(Str_email, <<"c", "@", "x">>)}

-----------------------------------------------------------------------------
(* The api client: Resource.GetTitle *)

Str_nl == <<"n", "l">>
Str_en == <<"e", "n">>
Str_de == <<"d", "e">>
Str_fr == <<"f", "r">>

\* the placeholder of a resource without a title
Str_dash == <<"-">>

\* the preference with en ahead of nl
PreferredLangs_EnFirst == <<Str_en, Str_nl, Str_de>>

\* for _, lang := range []string{"nl", "en", "de"}
PreferredLangs == <<Str_nl, Str_en, Str_de>>

\* the inner loop: the entries of details in lang that have a title
TitledIn(details, lang) ==
    SelectSeq(details, LAMBDA d : d.Lang = lang /\ d.Title # << >>)

\* the two loops: the title the first of langs that has one returns, the
\* empty string when the loops end without a return
RECURSIVE PreferredTitle(_, _)
PreferredTitle(details, langs) ==
    IF langs = << >> THEN << >>
    ELSE IF TitledIn(details, Head(langs)) # << >>
         THEN TitledIn(details, Head(langs))[1].Title
         ELSE PreferredTitle(details, Tail(langs))

\* after the loops, t being what they returned: the first entry's title,
\* or "-" when it is empty
TitleOrFallback(t, details) ==
    IF t # << >> THEN t
    ELSE IF details[1].Title # << >> THEN details[1].Title
    ELSE Str_dash

\* Resource.GetTitle
GetTitle(r) ==
    IF Len(r.TRCItemDetails) = 0 THEN Str_dash
    ELSE TitleOrFallback(PreferredTitle(r.TRCItemDetails, PreferredLangs),
                         r.TRCItemDetails)

\* how many per-language entries the enumerated resources have at most
MaxDetails == 3

DetailInputs ==
    [Lang : {Str_nl, Str_en, Str_de, Str_fr},
     Title : {<< >>, <<"F", "o", "o">>, <<"B", "a", "r">>}]

\* the resources GetTitle is called on
TitleInputs ==
    {[TRCItemDetails |-> ds] :
        ds \in UNION {[1..n -> DetailInputs] : n \in 0..MaxDetails}}

-----------------------------------------------------------------------------
(* The api client: ParseResources *)

Str_id == <<"i", "d">>
Str_types == <<"t", "y", "p", "e", "s">>
Str_published == <<"p", "u", "b", "l", "i", "s", "h", "e", "d">>
Str_calendar == <<"c", "a", "l", "e", "n", "d", "a", "r">>
Str_media == <<"m", "e", "d", "i", "a">>
Str_files == <<"f", "i", "l", "e", "s">>
Str_markers == <<"m", "a", "r", "k", "e", "r", "s">>
Str_keywords == <<"k", "e", "y", "w", "o", "r", "d", "s">>

\* The json tags of Resource the model keeps, one field of each Go type of
\* the struct: ID string, Types []string, Published bool, Calendar
\* *Calendar, Media []Media, Files []interface{}, Markers FlexStringSlice,
\* Keywords json.RawMessage.  Every other field of the struct has one of
\* these types and decodes as the field of its type does.
ResourceFields ==
    {Str_id, Str_types, Str_published, Str_calendar, Str_media, Str_files,
     Str_markers, Str_keywords}

\* whether every element of a JSON array decodes into a struct: an object
\* does (the nested objects of this model have no members), null leaves
\* the zero struct, any other value is an error
StructElements(items) ==
    \A i \in 1..Len(items) : items[i].type \in {"object", "null"}

\* whether json.Unmarshal stores v into the field of Resource tagged tag
\* without an error; a member that matches no field is skipped
FieldDecodes(tag, v) ==
    CASE tag = Str_id -> UnmarshalString(v).ok
      [] tag = Str_types -> UnmarshalStringSlice(v).ok
      [] tag = Str_published -> v.type \in {"bool", "null"}
      [] tag = Str_calendar -> v.type \in {"object", "null"}
      [] tag = Str_media ->
            v.type = "null" \/ (v.type = "array" /\ StructElements(v.items))
      [] tag = Str_files -> v.type \in {"array", "null"}
      [] tag = Str_markers -> UnmarshalJSON(v).err = "nil"
      [] tag = Str_keywords -> TRUE
      [] OTHER -> TRUE

\* the value of the last member of object v that sets the field tagged
\* tag, absent when there is none
FieldValue(v, tag, absent) ==
    LET ms == MembersFor(v, tag)
    IN IF ms = << >> THEN absent ELSE ms[Len(ms)].val

\* the zero Resource
ZeroResource == [ID |-> << >>, Markers |-> << >>, Keywords |-> NilRaw]

\* the fields of the decoded Resource the model follows
DecodedResource(v) ==
    [ID |-> UnmarshalString(FieldValue(v, Str_id, JNull)).val,
     Markers |-> UnmarshalJSON(FieldValue(v, Str_markers, JNull)).f,
     Keywords |-> FieldValue(v, Str_keywords, NilRaw)]

\* json.Unmarshal(r, &res) with res a Resource: null has no effect, an
\* object sets the fields its members match, and a member whose value does
\* not fit its field makes Unmarshal return an error; any other value is
\* an error
UnmarshalResource(v) ==
    CASE v.type = "null" -> [ok |-> TRUE, val |-> ZeroResource]
      [] v.type = "object" ->
            IF \A i \in 1..Len(v.items) :
                   FieldDecodes(ToLower(v.items[i].key), v.items[i].val)
            THEN [ok |-> TRUE, val |-> DecodedResource(v)]
            ELSE [ok |-> FALSE, val |-> ZeroResource]
      [] OTHER -> [ok |-> FALSE, val |-> ZeroResource]

\* ParseResources(raw): the resources in order, or nil and an error as
\* soon as one item does not decode
ParseResources(raw) ==
    IF \A i \in 1..Len(raw) : UnmarshalResource(raw[i]).ok
    THEN [resources |-> [i \in 1..Len(raw) |-> UnmarshalResource(raw[i]).val],
          err |-> "nil"]
    ELSE [resources |-> << >>, err |-> "parsing resource"]

\* Resource.GetKeywords: nil when the field is absent or does not decode
\* into []Keyword, else one Keyword for each element of the array
GetKeywords(r) ==
    IF r.Keywords.type = "array" /\ StructElements(r.Keywords.items)
    THEN r.Keywords.items
    ELSE << >>

\* how many raw items the enumerated list responses have at most
MaxResources == 2

\* the shapes a field of a result item arrives in
FieldShapes ==
    {JNull, JString(<<"x">>), JNumber(<<"7">>), JArray(<<JString(<<"x">>)>>),
     JArray(<<JObject(<< >>)>>), JObject(<< >>), JBool(Str_true)}

\* result items: an object with an id and at most one other member
ResourceDocs ==
    {JObject(<<JMember(Str_id, JString(<<"e">>))>> \o extra) :
        extra \in {<< >>} \cup
                  {<<JMember(t, v)>> : t \in ResourceFields \ {Str_id},
                                       v \in FieldShapes}}

\* the results of a list response
RawInputs_Resources ==
    UNION {[1..n -> ResourceDocs] : n \in 0..MaxResources}

-----------------------------------------------------------------------------
(* encoding/json: a document decoded into map[string]interface{} and       *)
(* marshalled again                                                        *)

\* A document is the mapping its JSON object denotes, from each key to a
\* JSON value.  The numbers of the documents of this model are the
\* numerals of non-negative integers of at most 16 digits.

\* a numeral of at most 16 digits as the pair hi * 10^8 + lo
SplitNumeral(ds) ==
    [hi |-> Atoi(SubSeq(ds, 1, Len(ds) - 8)),
     lo |-> Atoi(SubSeq(ds, IF Len(ds) > 8 THEN Len(ds) - 7 ELSE 1, Len(ds)))]

\* whether n is above 2^53 = 9007199254740992, up to which a float64
\* holds every integer
BeyondExact(n) ==
    n.hi > 90071992 \/ (n.hi = 90071992 /\ n.lo > 54740992)

\* the float64 json.Unmarshal stores for the integer n < 10^16 when it
\* decodes into interface{}: between 2^53 and 2^54 a float64 holds the
\* even integers only, and an odd n is rounded to its neighbour whose
\* mantissa is even, the multiple of 4
RoundToFloat64(n) ==
    IF ~BeyondExact(n) \/ n.lo % 2 = 0 THEN n
    ELSE IF (n.lo + 1) % 4 # 0 THEN [hi |-> n.hi, lo |-> n.lo - 1]
    ELSE IF n.lo + 1 = 100000000 THEN [hi |-> n.hi + 1, lo |-> 0]
    ELSE [hi |-> n.hi, lo |-> n.lo + 1]

\* json.Marshal of a float64 that is an integer below 10^21: its digits
FormatFloat(n) ==
    IF n.hi = 0 THEN Itoa(n.lo) ELSE Itoa(n.hi) \o ZeroPad(Itoa(n.lo), 8)

\* a value decoded into interface{} and marshalled again: a number goes
\* through float64, an array and an object are decoded element by element,
\* a string, a boolean and null come back as they were.  (An object comes
\* back with its keys sorted; the objects of this model have them sorted.)
RECURSIVE ViaInterface(_)
ViaInterface(v) ==
    CASE v.type = "number" ->
            JNumber(FormatFloat(RoundToFloat64(SplitNumeral(v.s))))
      [] v.type = "array" ->
            JArray([i \in 1..Len(v.items) |-> ViaInterface(v.items[i])])
      [] v.type = "object" ->
            JObject([i \in 1..Len(v.items) |->
                        JMember(v.items[i].key, ViaInterface(v.items[i].val))])
      [] OTHER -> v

-----------------------------------------------------------------------------
(* The list commands with --json *)

Str_size == <<"s", "i", "z", "e">>
Str_page == <<"p", "a", "g", "e">>
Str_hits == <<"h", "i", "t", "s">>
Str_results == <<"r", "e", "s", "u", "l", "t", "s">>
Str_total == <<"t", "o", "t", "a", "l">>

\* whether json.Unmarshal stores v into the field of SearchResult tagged
\* tag without an error (the numbers of this model are integers)
ResultFieldDecodes(tag, v) ==
    CASE tag \in {Str_size, Str_page, Str_hits} -> v.type \in {"number", "null"}
      [] tag = Str_results -> v.type \in {"array", "null"}
      [] OTHER -> TRUE

\* an int field of SearchResult after decoding object v
IntField(v, tag) ==
    LET set == SelectSeq(MembersFor(v, tag), LAMBDA m : m.val.type = "number")
    IN IF set = << >> THEN <<"0">> ELSE set[Len(set)].val.s

\* the Results field after decoding object v: nil (JNull) unless an array
\* was stored
ResultsField(v) ==
    LET set == SelectSeq(MembersFor(v, Str_results), LAMBDA m : m.val.type = "array")
    IN IF set = << >> THEN JNull ELSE set[Len(set)].val

ZeroSearchResult == [Size |-> <<"0">>, Page |-> <<"0">>, Hits |-> <<"0">>, Results |-> JNull]

\* json.Unmarshal(body, &result) of ListEvents, result a SearchResult:
\* members that match none of the four fields are dropped
UnmarshalSearchResult(v) ==
    CASE v.type = "null" -> [ok |-> TRUE, val |-> ZeroSearchResult]
      [] v.type = "object" ->
            IF \A i \in 1..Len(v.items) :
                   ResultFieldDecodes(ToLower(v.items[i].key), v.items[i].val)
            THEN [ok |-> TRUE,
                  val |-> [Size |-> IntField(v, Str_size),
                           Page |-> IntField(v, Str_page),
                           Hits |-> IntField(v, Str_hits),
                           Results |-> ResultsField(v)]]
            ELSE [ok |-> FALSE, val |-> ZeroSearchResult]
      [] OTHER -> [ok |-> FALSE, val |-> ZeroSearchResult]

\* mustMarshal(result): the four fields of the struct, a nil Results as null
MustMarshal(result) ==
    JObject(<<JMember(Str_size, JNumber(result.Size)),
              JMember(Str_page, JNumber(result.Page)),
              JMember(Str_hits, JNumber(result.Hits)),
              JMember(Str_results, result.Results)>>)

\* printRawJSON(data) for the object mustMarshal returns: decoded into
\* interface{} and encoded again, which sorts the keys
PrintRawJSON(v) ==
    LET w == ViaInterface(v)
    IN JObject(<<w.items[3], w.items[2], w.items[4], w.items[1]>>)

\* EventsListCmd.Run with --json from the return of doRequest on: the
\* error it returns and the document it prints
ListOutputJSON(respBody) ==
    LET r == UnmarshalSearchResult(respBody)
    IN IF r.ok
       THEN [err |-> "nil", out |-> PrintRawJSON(MustMarshal(r.val))]
       ELSE [err |-> "parsing response", out |-> JNull]

\* the bodies a list request is answered with
ResponseInputs ==
    {JObject(<<JMember(Str_hits, JNumber(<<"1">>)),
               JMember(Str_page, JNumber(<<"0">>))>>
             \o results
             \o <<JMember(Str_size, JNumber(<<"2", "5">>))>>
             \o extra) :
        results \in {<< >>} \cup
            {<<JMember(Str_results, v)>> :
                v \in {JNull, JString(<<"x">>)}
                      \cup {JArray(items) :
                              items \in UNION {[1..n -> ResourceDocs] : n \in 0..1}}},
        extra \in {<< >>, <<JMember(Str_total, JNumber(<<"1">>))>>}}
    \cup {JNull, JArray(<< >>)}

-----------------------------------------------------------------------------
(* main: the access token the client is built with *)

\* os.Getenv("FF_ACCESS_TOKEN") after godotenv.Load of a file that holds
\* fileToken under that key: Load sets the variables the environment does
\* not have yet (an unset variable is the empty token here)
Getenv(env, fileToken) == IF env # << >> THEN env ELSE fileToken

\* the file the loop over ConfigLocations loads: the first that exists
FirstFound(c) ==
    IF c.Cwd.exists THEN c.Cwd.token
    ELSE IF c.Home.exists THEN c.Home.token
    ELSE << >>

\* config.Load(configFile): the token of the Config, or the error
Load(c) ==
    IF c.Config /\ ~c.ConfigLoads
    THEN [err |-> "failed to load config file", token |-> << >>]
    ELSE LET token == Getenv(c.Env, IF c.Config THEN c.ConfigToken
                                                ELSE FirstFound(c))
         IN IF token = << >>
            THEN [err |-> "FF_ACCESS_TOKEN not set", token |-> << >>]
            ELSE [err |-> "nil", token |-> token]

\* main from config.Load to api.NewClient: whether it exits with status 1,
\* and the token of the client otherwise
ClientToken(c) ==
    LET cfg == Load(c)
    IN IF cfg.err # "nil" /\ c.Token = << >>
       THEN [exit |-> TRUE, token |-> << >>]
       ELSE [exit |-> FALSE,
             token |-> IF c.Token # << >> THEN c.Token ELSE cfg.token]

\* a .env file: whether it exists and the token it holds
EnvFiles ==
    {[exists |-> FALSE, token |-> << >>], [exists |-> TRUE, token |-> << >>],
     [exists |-> TRUE, token |-> <<"D">>]}

\* the invocations: --token, FF_ACCESS_TOKEN, --config with the file it
\* names, and the two default files
TokenInputs ==
    {[Token |-> t, Env |-> e, Config |-> cf, ConfigLoads |-> cl,
      ConfigToken |-> ct, Cwd |-> cwd, Home |-> home] :
        t \in {<< >>, <<"T">>}, e \in {<< >>, <<"E">>}, cf \in BOOLEAN,
        cl \in BOOLEAN, ct \in {<< >>, <<"C">>}, cwd \in EnvFiles,
        home \in EnvFiles}

-----------------------------------------------------------------------------
(* cmd: dictionary categories *)

\* a *string that is nil, and one that points to s
NilString == [nil |-> TRUE, s |-> << >>]
StringPtr(s) == [nil |-> FALSE, s |-> s]

\* label := cat.Name, replaced by the label of the first translation in
\* the language asked for
LabelOf(cat, lang) ==
    LET ts == SelectSeq(cat.Translations, LAMBDA t : t.Lang = lang)
    IN IF ts = << >> THEN cat.Name ELSE ts[1].Label

\* IdOf using the cnetID whatever categorizationId holds
IdOf_CnetAlways(cat) == cat.CnetID

\* id := cat.CnetID, replaced by *cat.ID when cat.ID is not nil and not ""
IdOf(cat) ==
    IF ~cat.ID.nil /\ cat.ID.s # << >> THEN cat.ID.s ELSE cat.CnetID

\* the closure collect of Run: the flatCats it appends for cats, in order
RECURSIVE Collect(_, _, _)
Collect(cats, parent, lang) ==
    IF cats = << >> THEN << >>
    ELSE LET cat == Head(cats)
             label == LabelOf(cat, lang)
         IN (IF Len(cat.Children) > 0 THEN Collect(cat.Children, label, lang)
             ELSE IF cat.CnetID # << >>
             THEN <<[ID |-> IdOf(cat), Label |-> label, Parent |-> parent]>>
             ELSE << >>)
            \o Collect(Tail(cats), parent, lang)

\* entityTypeMap[c.Type], "" for a type that is not a key
EntityTypeMap(type) ==
    CASE type = "event" -> "EVENEMENT"
      [] type = "location" -> "LOCATIE"
      [] type = "route" -> "ROUTE"
      [] type = "eventgroup" -> "EVENEMENTGROEP"
      [] OTHER -> ""

\* the top-level categorizations Run keeps
TopCats(cats, type) ==
    IF EntityTypeMap(type) # ""
    THEN SelectSeq(cats, LAMBDA cat : cat.EntityType = EntityTypeMap(type))
    ELSE cats

\* DictionaryCategoriesCmd.Run from the decoded ontology on: the
\* categories it prints
Categories(c) == Collect(TopCats(c.cats, c.Type), << >>, c.Lang)

\* how many levels a category tree has below its top-level categorization
MaxDepth == 2

\* how many children a category has at most
MaxChildren == 2

\* a category at the place path of its tree; its name, its cnetID and its
\* label carry the path
Category(path, entity, cnet, id, translated, children) ==
    [CnetID |-> IF cnet THEN <<"c">> \o path ELSE << >>,
     Name |-> <<"n">> \o path,
     ID |-> id,
     EntityType |-> entity,
     Children |-> children,
     Translations |->
        IF translated
        THEN <<[Lang |-> Str_en, Label |-> <<"e">> \o path],
               [Lang |-> Str_nl, Label |-> <<"l">> \o path]>>
        ELSE << >>]

\* the categories without children at path
LeafCategories(path, entity) ==
    {Category(path, entity, cnet, id, FALSE, << >>) :
        cnet \in BOOLEAN,
        id \in {NilString, StringPtr(<< >>), StringPtr(<<"i">> \o path)}}

\* the younger children of the category at path: n categories without
\* children, each with or without a cnetID
YoungerChildren(path, entity, n) ==
    {[i \in 1..n |->
        Category(path \o <<DigitChars[i + 2]>>, entity, k[i], NilString, FALSE, << >>)] :
        k \in [1..n -> BOOLEAN]}

\* the category trees of at most d levels below path
RECURSIVE CategoryTrees(_, _, _)
CategoryTrees(d, path, entity) ==
    LeafCategories(path, entity)
    \cup (IF d = 0 THEN {}
          ELSE {Category(path, entity, TRUE, NilString, translated, <<first>> \o rest) :
                    translated \in BOOLEAN,
                    first \in CategoryTrees(d - 1, path \o <<"1">>, entity),
                    rest \in UNION {YoungerChildren(path, entity, n) :
                                        n \in 0..(MaxChildren - 1)}})

\* the runs of dictionary categories: an ontology of two top-level
\* categorizations, --type and --lang
CategoriesInputs ==
    {[cats |-> <<first, second>>, Type |-> type, Lang |-> Str_nl] :
        first \in CategoryTrees(MaxDepth, <<"1">>, "EVENEMENT"),
        second \in {Category(<<"2">>, "LOCATIE", TRUE, NilString, FALSE, << >>),
                    Category(<<"2">>, "LOCATIE", TRUE, NilString, TRUE,
                        <<Category(<<"2", "1">>, "LOCATIE", TRUE, NilString, TRUE, << >>)>>)},
        type \in {"", "event"}}

-----------------------------------------------------------------------------
(* The resource helpers called on their own *)

InitResource ==
    /\ now = MkTime(2026, 11, 5, 45296, FALSE)
    /\ ParseIdle
    /\ QueryIdle
    /\ CmdIdle
    /\ ResIdle
    /\ SrvIdle

\* one call of a helper
ResCalled(fn, in, out) ==
    /\ resFn' = fn
    /\ resIn' = in
    /\ resOut' = out
    /\ UNCHANGED <<srvVars, now, parseVars, queryVars, cmdVars>>

CallResourceTypeToEndpoint ==
    /\ resFn = ""
    /\ \E x \in ResourceTypeInputs :
        ResCalled("ResourceTypeToEndpoint", x, ResourceTypeToEndpoint(x))

CallUnmarshalJSON ==
    /\ resFn = ""
    /\ \E v \in MarkersValues :
        ResCalled("UnmarshalJSON", v, UnmarshalJSON(v))

CallGetPhone ==
    /\ resFn = ""
    /\ \E ci \in PhoneInputs : ResCalled("GetPhone", ci, GetPhone(ci))

CallGetEmail ==
    /\ resFn = ""
    /\ \E ci \in MailInputs : ResCalled("GetEmail", ci, GetEmail(ci))

CallGetTitle ==
    /\ resFn = ""
    /\ \E r \in TitleInputs : ResCalled("GetTitle", r, GetTitle(r))

CallParseResources ==
    /\ resFn = ""
    /\ \E raw \in RawInputs_Resources :
        ResCalled("ParseResources", raw, ParseResources(raw))

CallListOutputJSON ==
    /\ resFn = ""
    /\ \E b \in ResponseInputs :
        ResCalled("ListOutputJSON", b, ListOutputJSON(b))

CallClientToken ==
    /\ resFn = ""
    /\ \E c \in TokenInputs : ResCalled("main", c, ClientToken(c))

CallCategories ==
    /\ resFn = ""
    /\ \E c \in CategoriesInputs : ResCalled("Categories", c, Categories(c))

NextResource ==
    \/ CallResourceTypeToEndpoint
    \/ CallUnmarshalJSON
    \/ CallGetPhone
    \/ CallGetEmail
    \/ CallGetTitle
    \/ CallParseResources
    \/ CallListOutputJSON
    \/ CallClientToken
    \/ CallCategories

SpecResource == InitResource /\ [][NextResource]_vars

-----------------------------------------------------------------------------
(* The api client: the operations on one resource *)

Kinds == {"events", "locations", "routes", "venues", "eventgroups"}

\* the id every command of the model is given
ResourceID == "e1"

\* fmt.Sprintf("/%s/%s", resourceType, url.PathEscape(id)) and what the
\* operation appends to it
Endpoint(kind, id, suffix) == <<"/", kind, "/", id>> \o suffix

\* doRequest sending the request a second time
DoRequest_Retrying(method, endpoint, data) ==
    <<[method |-> method, path |-> endpoint, query |-> EmptyValues, data |-> data],
      [method |-> method, path |-> endpoint, query |-> EmptyValues, data |-> data]>>

\* the HTTP requests one call of doRequest sends: httpClient.Do is called
\* once
DoRequest(method, endpoint, data) ==
    <<[method |-> method, path |-> endpoint, query |-> EmptyValues, data |-> data]>>

GetResource(kind, id) == DoRequest("GET", Endpoint(kind, id, << >>), NoDoc)

UpdateResource(kind, id, data) == DoRequest("PUT", Endpoint(kind, id, << >>), data)

DeleteResource(kind, id) == DoRequest("DELETE", Endpoint(kind, id, << >>), NoDoc)

GetComments(kind, id) == DoRequest("GET", Endpoint(kind, id, <<"/comments">>), NoDoc)

AddComment(kind, id, message) ==
    DoRequest("POST", Endpoint(kind, id, <<"/comments">>), [text |-> JString(message)])

GetRevisions(kind, id) == DoRequest("GET", Endpoint(kind, id, <<"/revisions">>), NoDoc)

GetAccountMe == DoRequest("GET", <<"/accounts/me">>, NoDoc)

\* ListAccounts, which GetAccountData and through it GetKeywords,
\* GetMarkers and GetOntology call once
ListAccounts == DoRequest("GET", <<"/accounts">>, NoDoc)

\* resource["published"] = published on the decoded map, marshalled
Republished(doc, published) ==
    [k \in DOMAIN doc \cup {"published"} |->
        IF k = "published"
        THEN JBool(IF published THEN Str_true ELSE Str_false)
        ELSE ViaInterface(doc[k])]

\* setPublished from the return of its GetResource on, b being what the
\* GET returned: the error it returns and the requests it issues.  A body
\* that is the JSON null decodes into a nil map without an error, and the
\* assignment to an entry of a nil map panics.
SetPublished(kind, id, published, b) ==
    CASE b.kind = "failed" ->
            [err |-> CmdError("GET_ERROR", "", << >>), issued |-> << >>]
      [] b.kind = "object" ->
            [err |-> NoCmdError,
             issued |-> UpdateResource(kind, id, Republished(b.doc, published))]
      [] b.kind = "null" ->
            [err |-> CmdError("PANIC", "", << >>), issued |-> << >>]
      [] OTHER ->
            [err |-> CmdError("PARSE_ERROR", "", << >>), issued |-> << >>]

\* fmt.Scanln(&confirm) on the line the user typed: leading blanks are
\* skipped and the word up to the next blank is stored; an empty line
\* stores nothing; text after the word makes Scanln return an error, which
\* Run does not look at, with the word already stored
RECURSIVE Scanln(_)
Scanln(line) ==
    IF line = << >> THEN << >>
    ELSE IF line[1] = " " THEN Scanln(Tail(line))
    ELSE IF \E i \in 1..Len(line) : line[i] = " "
    THEN SubSeq(line, 1, (CHOOSE i \in 1..Len(line) :
                            line[i] = " " /\ \A j \in 1..(i - 1) : line[j] # " ") - 1)
    ELSE line

\* whether a delete command goes on to DeleteResource
Confirmed(force, line) == force \/ ToLower(Scanln(line)) = <<"y">>

\* the server's document once a PUT was applied, keeping every key but
\* published as the server had it
Replaced_Merged(doc, data) ==
    [k \in DOMAIN doc \cup {"published"} |->
        IF k = "published" THEN data[k] ELSE doc[k]]

\* the server's document once a PUT was applied: the document sent
Replaced(doc, data) == data

-----------------------------------------------------------------------------
(* The commands, the server and another writer *)

\* how many writes of another client of the API a run holds at most
MaxExternal == 1

Str_e1 == <<"e", "1">>

BaseDoc ==
    [id |-> JString(Str_e1), title |-> JString(<<"t">>),
     published |-> JBool(Str_false)]

\* 2^53 + 1
BigNumeral ==
    <<"9", "0", "0", "7", "1", "9", "9", "2", "5", "4", "7", "4", "0", "9", "9", "3">>

\* the documents the server holds at first
ServerDocs ==
    {BaseDoc,
     [BaseDoc EXCEPT !.published = JBool(Str_true)],
     [id |-> JString(Str_e1), title |-> JString(<<"t">>)],
     [id |-> JString(Str_e1), title |-> JString(<<"t">>),
      published |-> JBool(Str_false), count |-> JNumber(<<"7">>)],
     [id |-> JString(Str_e1), title |-> JString(<<"t">>),
      published |-> JBool(Str_true), count |-> JNumber(BigNumeral)]}

\* what another client writes
ExternalEdits ==
    {[key |-> "title", val |-> JString(<<"u">>)],
     [key |-> "published", val |-> JBool(Str_true)]}

\* the lines typed at the confirmation prompt
AnswerLines ==
    {<< >>, <<"y">>, <<"Y">>, <<"n">>, <<"y", "e", "s">>, <<"Y", "e", "s">>,
     <<" ", "y">>, <<"y", " ">>, <<"y", " ", "n">>, <<" ">>, <<"n", " ", "y">>}

\* the command lines of events list and events export that differ in
\* --updated-since only
PlainListInputs ==
    {c \in EventsListInputs :
        c.DateFrom = << >> /\ c.DateTo = << >> /\ c.Geo = << >>
        /\ c.GeoDistance = << >>}

PlainExportInputs ==
    {c \in EventsExportInputs :
        c.DateFrom = << >> /\ c.DateTo = << >> /\ c.Geo = << >>
        /\ c.GeoDistance = << >> /\ c.Format = << >>}

InitClient ==
    /\ now = MkTime(2026, 11, 5, 45296, FALSE)
    /\ ParseIdle
    /\ QueryIdle
    /\ CmdIdle
    /\ ResIdle
    /\ server \in ServerDocs \cup {NoDoc}
    /\ initial = server
    /\ body = NoBody
    /\ external = << >>
    /\ stdout = << >>

\* a command on the resource has run up to its first wait
ResourceStarted(name, args, printed, issued, waiting) ==
    /\ cmdName' = name
    /\ cmdArgs' = args
    /\ cmdErr' = NoCmdError
    /\ requests' = requests \o issued
    /\ stdout' = stdout \o printed
    /\ pc' = IF issued = << >> THEN "done" ELSE waiting
    /\ UNCHANGED <<server, body, initial, external, resVars, now, parseVars, queryVars>>

\* tff <kind> get | comments | revisions <id>
ReadRun ==
    /\ pc = "idle"
    /\ \E kind \in Kinds :
        \/ ResourceStarted("get", [kind |-> kind], << >>,
                           GetResource(kind, ResourceID), "awaiting")
        \/ ResourceStarted("comments", [kind |-> kind], << >>,
                           GetComments(kind, ResourceID), "awaiting")
        \/ ResourceStarted("revisions", [kind |-> kind], << >>,
                           GetRevisions(kind, ResourceID), "awaiting")

\* tff <kind> comment <id> <message>
CommentRun ==
    /\ pc = "idle"
    /\ \E kind \in Kinds :
        ResourceStarted("comment", [kind |-> kind], << >>,
                        AddComment(kind, ResourceID, <<"m">>), "awaiting")

\* tff <kind> delete <id> [-f]: the prompt is printed and the answer read
\* without -f only
DeleteRun ==
    /\ pc = "idle"
    /\ \E kind \in Kinds, force \in BOOLEAN, line \in AnswerLines :
        /\ force => line = << >>
        /\ ResourceStarted("delete",
                [kind |-> kind, force |-> force, line |-> line],
                (IF force THEN << >> ELSE <<"Are you sure?">>)
                    \o (IF Confirmed(force, line) THEN << >> ELSE <<"Cancelled.">>),
                IF Confirmed(force, line)
                THEN DeleteResource(kind, ResourceID) ELSE << >>,
                "awaiting")

\* tff <kind> publish | unpublish <id>, up to the GET of setPublished
PublishRun ==
    /\ pc = "idle"
    /\ \E kind \in Kinds, published \in BOOLEAN :
        ResourceStarted(IF published THEN "publish" ELSE "unpublish",
                        [kind |-> kind, published |-> published], << >>,
                        GetResource(kind, ResourceID), "awaitGet")

\* tff accounts me | list, tff dictionary keywords | markers | ontology |
\* categories
AccountRun ==
    /\ pc = "idle"
    /\ \/ ResourceStarted("accounts me", << >>, << >>, GetAccountMe, "awaiting")
       \/ \E name \in {"accounts list", "dictionary keywords",
                       "dictionary markers", "dictionary ontology",
                       "dictionary categories"} :
            ResourceStarted(name, << >>, << >>, ListAccounts, "awaiting")

\* tff events list
ListRun ==
    /\ pc = "idle"
    /\ \E c \in PlainListInputs : ListStarted(c, EventsListOptions(c, now))
    /\ UNCHANGED <<srvVars, resVars, now, parseVars, queryVars>>

\* tff events export
ExportRun ==
    /\ pc = "idle"
    /\ \E c \in PlainExportInputs : ExportStarted(c, EventsExportOptions(c, now))
    /\ UNCHANGED <<srvVars, resVars, now, parseVars, queryVars>>

\* the one request of a command returns: an error (the transport failed
\* or the status was 400 or more) or a body; a DELETE the server carried
\* out removes the document, also when its response is lost
RequestReturns ==
    /\ pc = "awaiting"
    /\ \E applied \in BOOLEAN, failed \in BOOLEAN :
        /\ ~failed => applied
        /\ cmdErr' = IF failed THEN CmdError("API_ERROR", "", << >>) ELSE NoCmdError
        /\ server' = IF applied /\ requests[Len(requests)].method = "DELETE"
                     THEN NoDoc ELSE server
        /\ stdout' = IF failed THEN stdout ELSE Append(stdout, "ok")
    /\ pc' = "done"
    /\ UNCHANGED <<body, initial, external, cmdName, cmdArgs, requests,
                   resVars, now, parseVars, queryVars>>

\* what the GET of a resource can return: an error, and when the server
\* holds the document also the document, or a body that is no object
GetOutcomes(doc) ==
    {[kind |-> "failed", doc |-> NoDoc]}
    \cup (IF doc = NoDoc THEN {}
          ELSE {[kind |-> "object", doc |-> doc]}
               \cup {[kind |-> k, doc |-> NoDoc] : k \in {"null", "array", "invalid"}})

\* the GET of setPublished returns and setPublished goes on to its PUT
GetReturns ==
    /\ pc = "awaitGet"
    /\ \E b \in GetOutcomes(server) :
        LET r == SetPublished(cmdArgs.kind, ResourceID, cmdArgs.published, b)
        IN /\ body' = b
           /\ cmdErr' = r.err
           /\ requests' = requests \o r.issued
           /\ pc' = IF r.issued = << >> THEN "done" ELSE "awaitPut"
    /\ UNCHANGED <<server, initial, external, stdout, cmdName, cmdArgs,
                   resVars, now, parseVars, queryVars>>

\* the PUT of setPublished returns: the server replaced the document, or
\* the request failed, before or after the server carried it out
PutReturns ==
    /\ pc = "awaitPut"
    /\ \E applied \in BOOLEAN, failed \in BOOLEAN :
        /\ ~failed => applied
        /\ cmdErr' = IF failed THEN CmdError("API_ERROR", "", << >>) ELSE NoCmdError
        /\ server' = IF applied
                     THEN Replaced(server, requests[Len(requests)].data)
                     ELSE server
        /\ stdout' = IF failed THEN stdout ELSE Append(stdout, "ok")
    /\ pc' = "done"
    /\ UNCHANGED <<body, initial, external, cmdName, cmdArgs, requests,
                   resVars, now, parseVars, queryVars>>

\* another client of the API changes the document while a request of this
\* client is under way
ExternalWrite ==
    /\ pc \in {"awaiting", "awaitGet", "awaitPut"}
    /\ server # NoDoc
    /\ Len(external) < MaxExternal
    /\ \E w \in ExternalEdits :
        /\ server' = [k \in DOMAIN server \cup {w.key} |->
                         IF k = w.key THEN w.val ELSE server[k]]
        /\ external' = Append(external, [key |-> w.key, val |-> w.val, at |-> pc])
    /\ UNCHANGED <<body, initial, stdout, cmdVars, resVars, now, parseVars, queryVars>>

\* the command is over and the next one is started
NextCommand ==
    /\ pc = "done"
    /\ pc' = "idle"
    /\ cmdName' = ""
    /\ cmdArgs' = << >>
    /\ cmdErr' = NoCmdError
    /\ requests' = << >>
    /\ body' = NoBody
    /\ stdout' = << >>
    /\ UNCHANGED <<server, initial, external, resVars, now, parseVars, queryVars>>

NextClient ==
    \/ ReadRun
    \/ CommentRun
    \/ DeleteRun
    \/ PublishRun
    \/ AccountRun
    \/ ListRun
    \/ ExportRun
    \/ RequestReturns
    \/ GetReturns
    \/ PutReturns
    \/ ExternalWrite
    \/ NextCommand

SpecClient == InitClient /\ [][NextClient]_vars

-----------------------------------------------------------------------------
(* Properties of buildListQuery, under SpecQuery *)

BuildCalled == queryFn = "buildListQuery"

ListKeys ==
    {KeyOf[f] : f \in StringFields} \cup {"deleted", "sort", "sortorder", "size", "page"}

\* C1, as amended: buildListQuery sends a parameter for a field if and only
\* if the field is not the zero value of its type: a string field (the sort
\* field included, 'modified' too) when it is not empty, the page size when
\* it is greater than 0 (25 too), the page index when it is greater than 0,
\* a boolean when it is true.  It sends nothing else, and never a parameter
\* whose value is the empty string.
C1_EmitsIffSet ==
    BuildCalled =>
        /\ \A f \in StringFields :
              (KeyOf[f] \in DOMAIN queryOut) <=> (queryIn[f] # << >>)
        /\ ("sort" \in DOMAIN queryOut) <=> (queryIn.Sort # << >>)
        /\ ("size" \in DOMAIN queryOut) <=> (queryIn.Size > 0)
        /\ ("page" \in DOMAIN queryOut) <=> (queryIn.Page > 0)
        /\ ("deleted" \in DOMAIN queryOut) <=> queryIn.Deleted
        /\ ("sortorder" \in DOMAIN queryOut) <=> queryIn.Asc
        /\ DOMAIN queryOut \subseteq ListKeys
        /\ \A k \in DOMAIN queryOut : queryOut[k] # << >>

\* C1 as stated: the sort field is sent only when it differs from its
\* default 'modified', the page size only when it differs from its default
\* 25, the page index only when it differs from its default 0 (sizes and
\* indexes below zero are taken as absent).
C1_EmitsIffNonDefault ==
    BuildCalled =>
        /\ \A f \in StringFields :
              (KeyOf[f] \in DOMAIN queryOut) <=> (queryIn[f] # << >>)
        /\ ("sort" \in DOMAIN queryOut) <=> (queryIn.Sort \notin {<< >>, Str_modified})
        /\ ("size" \in DOMAIN queryOut) <=> (queryIn.Size > 0 /\ queryIn.Size # 25)
        /\ ("page" \in DOMAIN queryOut) <=> (queryIn.Page > 0)
        /\ ("deleted" \in DOMAIN queryOut) <=> queryIn.Deleted
        /\ ("sortorder" \in DOMAIN queryOut) <=> queryIn.Asc
        /\ \A k \in DOMAIN queryOut : queryOut[k] # << >>

\* the defaults of the list commands are sent, an empty filter is not
C1_DefaultsSent ==
    /\ BuildCalled
    /\ queryIn.Sort = Str_modified /\ queryIn.Size = 25 /\ queryIn.Page = 0
    /\ queryIn.Search # << >> /\ queryIn.Markers = << >>
    /\ DOMAIN queryOut = {"search", "sort", "size"}
    /\ queryOut["sort"] = Str_modified
    /\ queryOut["size"] = <<"2", "5">>

\* C7, as amended: includeDeleted sends deleted=true exactly when it is
\* true, sortAscending sends sortorder=asc exactly when it is true; a false
\* flag sends no parameter, and neither key ever carries "false".
C7_BooleanParams ==
    BuildCalled =>
        /\ queryIn.Deleted =>
              "deleted" \in DOMAIN queryOut /\ queryOut["deleted"] = Str_true
        /\ ~queryIn.Deleted => "deleted" \notin DOMAIN queryOut
        /\ queryIn.Asc =>
              "sortorder" \in DOMAIN queryOut /\ queryOut["sortorder"] = Str_asc
        /\ ~queryIn.Asc => "sortorder" \notin DOMAIN queryOut
        /\ \A k \in {"deleted", "sortorder"} \cap DOMAIN queryOut :
              queryOut[k] # Str_false

\* C7 as stated: each of the two flags, when true, sends the literal "true".
C7_BooleansSendTrue ==
    BuildCalled =>
        /\ queryIn.Deleted =>
              "deleted" \in DOMAIN queryOut /\ queryOut["deleted"] = Str_true
        /\ ~queryIn.Deleted => "deleted" \notin DOMAIN queryOut
        /\ queryIn.Asc =>
              "sortorder" \in DOMAIN queryOut /\ queryOut["sortorder"] = Str_true
        /\ ~queryIn.Asc => "sortorder" \notin DOMAIN queryOut

\* both flags set and sent
C7_BothFlagsSent ==
    /\ BuildCalled
    /\ queryIn.Deleted /\ queryIn.Asc
    /\ queryOut["deleted"] = Str_true
    /\ queryOut["sortorder"] = Str_asc

-----------------------------------------------------------------------------
(* Properties of events list and events export, under Spec *)

\* the errors Run returns from its own checks of the flags
LocalValidationKinds ==
    {"DATE_FORMAT_ERROR", "GEO_FORMAT_ERROR", "GEO_FILTER_INVALID",
     "EXPORT_FORMAT_REQUIRES_RANGE"}

\* --geo names a complete center: a latitude and a longitude, both non-empty
CompleteCenter(g) ==
    /\ Len(SplitN2(g)) = 2
    /\ TrimSpace(SplitN2(g)[1]) # << >>
    /\ TrimSpace(SplitN2(g)[2]) # << >>

\* C2: every request that carries geodistance carries geo as well.
C2_RadiusNeedsCenter ==
    \A i \in DOMAIN requests :
        "geodistance" \in DOMAIN requests[i].query
            => "geo" \in DOMAIN requests[i].query

Str_0d == <<"0", "d">>
Str_2w == <<"2", "w">>

\* a <= b for two dates printed as YYYY-MM-DD
DateTextLeq(a, b) ==
    DaysFromCivil(TimeParse(a).t.year, TimeParse(a).t.month, TimeParse(a).t.day)
        <= DaysFromCivil(TimeParse(b).t.year, TimeParse(b).t.month, TimeParse(b).t.day)

\* C3: events list --date-from 0d --date-to 2w asks for the next two weeks:
\* eventDateRangeStart is today, eventDateRangeEnd is the day 14 days after
\* today, and so the start is not after the end.
C3_NextTwoWeeks ==
    (/\ cmdName = "events list"
     /\ cmdArgs.DateFrom = Str_0d /\ cmdArgs.DateTo = Str_2w
     /\ requests # << >>)
    => /\ requests[1].query["eventDateRangeStart"] = FormatDate(now)
       /\ requests[1].query["eventDateRangeEnd"] = FormatDate(AddDate(now, 0, 0, 14))
       /\ DateTextLeq(requests[1].query["eventDateRangeStart"],
                      requests[1].query["eventDateRangeEnd"])

\* C4: a run that ends in one of the local validation errors has issued no
\* HTTP request: every check of the flags comes before the first request.
C4_ValidationBeforeRequest ==
    cmdErr.kind \in LocalValidationKinds => requests = << >>

\* an export stopped by the --geo-distance check, the last of the checks
C4_StoppedAtLastCheck ==
    /\ pc = "done"
    /\ cmdName = "events export"
    /\ cmdErr.kind = "GEO_FILTER_INVALID"
    /\ cmdArgs.UpdatedSince # << >> /\ cmdArgs.DateFrom # << >>
    /\ requests = << >>

\* the flag is present and the parser accepts it
ValidDateFlag(s) == s # << >> /\ ParseRelativeDate(s, now).err = NoError

\* C5: an uitkrant export with the date-from or the date-to bound absent
\* ends in EXPORT_FORMAT_REQUIRES_RANGE and sends nothing; with both bounds
\* present and valid that error does not arise, and the request the run
\* sends once its other flags pass their checks carries format=uitkrant.
C5_UitkrantNeedsRange ==
    (cmdName = "events export" /\ cmdArgs.Format = Str_uitkrant) =>
        /\ (cmdArgs.DateFrom = << >> \/ cmdArgs.DateTo = << >>) =>
              /\ pc = "done"
              /\ cmdErr.kind = "EXPORT_FORMAT_REQUIRES_RANGE"
              /\ requests = << >>
        /\ (ValidDateFlag(cmdArgs.DateFrom) /\ ValidDateFlag(cmdArgs.DateTo)) =>
              /\ cmdErr.kind # "EXPORT_FORMAT_REQUIRES_RANGE"
              /\ \/ cmdErr.kind \in LocalValidationKinds
                 \/ /\ Len(requests) = 1
                    /\ requests[1].query["format"] = Str_uitkrant

\* an uitkrant export with both bounds, sent
C5_UitkrantSent ==
    /\ cmdName = "events export"
    /\ cmdArgs.Format = Str_uitkrant
    /\ cmdArgs.DateFrom # << >> /\ cmdArgs.DateTo # << >>
    /\ Len(requests) = 1
    /\ requests[1].query["format"] = Str_uitkrant
    /\ "eventDateRangeStart" \in DOMAIN requests[1].query
    /\ "eventDateRangeEnd" \in DOMAIN requests[1].query

\* C6: a run given a radius and no complete center sends no request and
\* ends in a validation error.  (Any of the local validation errors is
\* accepted here, so that a flag rejected earlier in the run does not count
\* against the claim.)
C6_RadiusWithoutCenterFails ==
    (/\ pc # "idle"
     /\ cmdArgs.GeoDistance # << >>
     /\ ~CompleteCenter(cmdArgs.Geo))
    => /\ requests = << >>
       /\ cmdErr.kind \in LocalValidationKinds

-----------------------------------------------------------------------------
(* Properties of the time parser, under SpecTime *)

\* s matches ^(\d+)(d|w|mo|y)$, read off the end of s
EndsInMo(s) == Len(s) >= 2 /\ s[Len(s) - 1] = "m" /\ s[Len(s)] = "o"

RelUnit(s) == IF EndsInMo(s) THEN <<"m", "o">> ELSE <<s[Len(s)]>>

RelDigits(s) == SubSeq(s, 1, Len(s) - Len(RelUnit(s)))

IsRelative(s) ==
    /\ s # << >>
    /\ RelUnit(s) \in Units
    /\ RelDigits(s) # << >>
    /\ \A i \in 1..Len(RelDigits(s)) : RelDigits(s)[i] \in Digits

RelN(s) == Atoi(RelDigits(s))

DayNumber(t) == DaysFromCivil(t.year, t.month, t.day)

ValidDate(t) ==
    /\ t.month \in 1..12
    /\ t.day >= 1
    /\ t.day <= (IF t.month = 2 THEN (IF IsLeap(t.year) THEN 29 ELSE 28)
                 ELSE IF t.month \in {4, 6, 9, 11} THEN 30 ELSE 31)

LastDay(y, m) ==
    IF m = 2 THEN (IF IsLeap(y) THEN 29 ELSE 28)
    ELSE IF m \in {4, 6, 9, 11} THEN 30 ELSE 31

\* the month n months before the month of t, counted in months since year 0
MonthIndexBefore(t, n) == (t.year * 12 + (t.month - 1)) - n

\* C8: n'mo' (n'y') yields a valid date in the calendar month exactly n
\* months (n years) before the month of the call, the day of the month
\* clamped to the last day of that month.
C8_MonthYearClamped ==
    (/\ parseFn = "ParseRelativeTime"
     /\ IsRelative(parseIn)
     /\ RelUnit(parseIn) \in {<<"m", "o">>, <<"y">>})
    => /\ parseOut.err = NoError
       /\ ValidDate(parseOut.t)
       /\ parseOut.t.year * 12 + (parseOut.t.month - 1)
            = MonthIndexBefore(parseAt,
                  IF RelUnit(parseIn) = <<"y">> THEN 12 * RelN(parseIn)
                  ELSE RelN(parseIn))
       /\ parseOut.t.day
            = (IF parseAt.day <= LastDay(parseOut.t.year, parseOut.t.month)
               THEN parseAt.day
               ELSE LastDay(parseOut.t.year, parseOut.t.month))

ValidDateText(s) ==
    /\ Len(s) = 10
    /\ \A i \in {1, 2, 3, 4, 6, 7, 9, 10} : s[i] \in Digits
    /\ s[5] = "-" /\ s[8] = "-"
    /\ ValidDate(MkTime(Atoi(SubSeq(s, 1, 4)), Atoi(SubSeq(s, 6, 7)),
                        Atoi(SubSeq(s, 9, 10)), 0, TRUE))

\* C10: for a valid absolute date, every entry point succeeds and returns
\* what it returns at any other clock value; ParseRelativeTime returns that
\* calendar date and ParseRelativeDate returns the input unchanged.
C10_AbsoluteDate ==
    (parseFn # "" /\ ValidDateText(parseIn)) =>
        /\ parseOut.err = NoError
        /\ \A c \in Clocks : ParseCall(parseFn, parseIn, c) = parseOut
        /\ parseFn = "ParseRelativeTime" =>
              /\ parseOut.t.year = Atoi(SubSeq(parseIn, 1, 4))
              /\ parseOut.t.month = Atoi(SubSeq(parseIn, 6, 7))
              /\ parseOut.t.day = Atoi(SubSeq(parseIn, 9, 10))
        /\ parseFn = "ParseRelativeDate" => parseOut.val = parseIn

\* a leap day parsed and printed again, on a later day
C10_LeapDayRoundTrip ==
    /\ parseFn = "ParseRelativeDate"
    /\ parseIn = <<"2", "0", "2", "4", "-", "0", "2", "-", "2", "9">>
    /\ parseAt = MkTime(2026, 11, 5, 45296, FALSE)
    /\ parseOut.val = parseIn

-----------------------------------------------------------------------------
(* Failures of the time parser, under SpecTime *)

\* C11: a string that matches neither the relative grammar nor a valid
\* YYYY-MM-DD date makes each of the three entry points fail with a
\* DATE_FORMAT_ERROR that names the string and lists the accepted forms;
\* ParseRelativeDate and ParseRelativeISO then return the empty string.
C11_InvalidInputFails ==
    (parseFn # "" /\ ~IsRelative(parseIn) /\ ~ValidDateText(parseIn)) =>
        /\ parseOut.err.kind = "DATE_FORMAT_ERROR"
        /\ parseOut.err.input = parseIn
        /\ Len(parseOut.err.forms) = 5
        /\ \E i \in 1..5 : parseOut.err.forms[i] = <<"1", "m", "o">>
        /\ \E i \in 1..5 : ValidDateText(parseOut.err.forms[i])
        /\ parseFn \in {"ParseRelativeDate", "ParseRelativeISO"} =>
              parseOut.val = << >>

\* the thirtieth of February, refused by ParseRelativeISO
C11_FebruaryThirtieth ==
    /\ parseFn = "ParseRelativeISO"
    /\ parseIn = <<"2", "0", "2", "6", "-", "0", "2", "-", "3", "0">>
    /\ parseOut.err.kind = "DATE_FORMAT_ERROR"
    /\ parseOut.err.input = parseIn
    /\ parseOut.val = << >>

-----------------------------------------------------------------------------
(* Properties of the list and export queries, under SpecQuery *)

ListFns ==
    {"ListEvents", "ListLocations", "ListRoutes", "ListVenues", "ListEventGroups"}

ExportFns ==
    {"ExportEvents", "ExportLocations", "ExportVenues", "ExportRoutes",
     "ExportEventGroups"}

\* the export functions that take an ExportOptions
PropertyFns == {"ExportEvents", "ExportLocations", "ExportVenues"}

PropertyKeys == {"export_propertyids", "export_properyids"}

\* the ListOptions the last call was given
CalledListOptions ==
    IF queryFn = "buildListQuery" THEN queryIn
    ELSE IF queryFn \in {"ListEvents", "ExportEvents"} THEN queryIn.opts.ListOptions
    ELSE queryIn.opts

\* C12: an export built with a non-empty propertyColumnIds carries it,
\* unchanged, under export_properyids for venues and under
\* export_propertyids for the other kinds, and under no other key; with
\* an empty propertyColumnIds, and for the kinds whose export takes no
\* propertyColumnIds, neither key is sent.
C12_PropertyColumnKey ==
    /\ queryFn \in PropertyFns =>
          IF queryIn.exportOpts.PropertyIDs = << >>
          THEN PropertyKeys \cap DOMAIN queryOut = {}
          ELSE /\ PropertyKeys \cap DOMAIN queryOut
                    = {IF queryFn = "ExportVenues" THEN "export_properyids"
                       ELSE "export_propertyids"}
               /\ \A k \in PropertyKeys \cap DOMAIN queryOut :
                      queryOut[k] = queryIn.exportOpts.PropertyIDs
    /\ queryFn \in (ExportFns \cup ListFns) \ PropertyFns =>
          PropertyKeys \cap DOMAIN queryOut = {}

\* a venue export with property column 12345
C12_VenueKeySent ==
    /\ queryFn = "ExportVenues"
    /\ queryIn.exportOpts.PropertyIDs = <<"1", "2", "3", "4", "5">>
    /\ "export_properyids" \in DOMAIN queryOut
    /\ queryOut["export_properyids"] = <<"1", "2", "3", "4", "5">>
    /\ "export_propertyids" \notin DOMAIN queryOut

\* C13: every export query, of each of the five kinds, has a format
\* parameter with one value: the format given, for an event export given
\* one, and excel in every other case.
C13_FormatForced ==
    queryFn \in ExportFns =>
        /\ "format" \in DOMAIN queryOut
        /\ queryOut["format"]
             = (IF queryFn = "ExportEvents" /\ queryIn.exportOpts.Format # << >>
                THEN queryIn.exportOpts.Format
                ELSE Str_excel)

\* an event export asked for as uitkrant
C13_UitkrantKept ==
    /\ queryFn = "ExportEvents"
    /\ queryIn.exportOpts.Format = Str_uitkrant
    /\ queryIn.opts.ListOptions.Sort = Str_title
    /\ queryOut["format"] = Str_uitkrant

\* every field of the ListOptions o is the zero value of its type
EmptyListOptions(o) ==
    /\ \A f \in StringFields : o[f] = << >>
    /\ o.Sort = << >>
    /\ ~o.Deleted /\ ~o.Asc
    /\ o.Size = 0 /\ o.Page = 0

EmptyEventPart(o) ==
    /\ o.DateFrom = << >> /\ o.DateTo = << >>
    /\ o.LocationID = << >> /\ o.City = << >>
    /\ o.GeoLat = << >> /\ o.GeoLon = << >> /\ o.GeoDistance = << >>

\* C14: a list query built from criteria with every field unset has no
\* parameters at all.
C14_EmptyCriteriaNoParams ==
    /\ (queryFn \in {"buildListQuery"} \cup (ListFns \ {"ListEvents"})
         /\ EmptyListOptions(CalledListOptions))
           => DOMAIN queryOut = {}
    /\ (queryFn = "ListEvents"
         /\ EmptyListOptions(CalledListOptions) /\ EmptyEventPart(queryIn.opts))
           => DOMAIN queryOut = {}

\* buildListQuery called on the zero ListOptions
C14_ZeroOptionsBuilt ==
    /\ BuildCalled
    /\ EmptyListOptions(queryIn)
    /\ DOMAIN queryOut = {}

\* ds is the decimal numeral of a number above 0: digits, no leading zero
IsDecimal(ds) ==
    /\ ds # << >>
    /\ \A i \in 1..Len(ds) : ds[i] \in Digits
    /\ ds[1] # "0"

\* C15: buildListQuery sends size exactly when the page size is above 0
\* and page exactly when the page index is above 0, each as the decimal
\* numeral of the number; zero and negative numbers send nothing.
C15_SizeAndPagePositive ==
    BuildCalled =>
        /\ ("size" \in DOMAIN queryOut) <=> (queryIn.Size > 0)
        /\ ("page" \in DOMAIN queryOut) <=> (queryIn.Page > 0)
        /\ "size" \in DOMAIN queryOut =>
              IsDecimal(queryOut["size"]) /\ Atoi(queryOut["size"]) = queryIn.Size
        /\ "page" \in DOMAIN queryOut =>
              IsDecimal(queryOut["page"]) /\ Atoi(queryOut["page"]) = queryIn.Page

\* a negative page size next to a positive page index
C15_NegativeSizeDropped ==
    /\ BuildCalled
    /\ queryIn.Size = -1 /\ queryIn.Page = 3
    /\ "size" \notin DOMAIN queryOut
    /\ queryOut["page"] = <<"3">>

\* the keys a list or export query can carry
QueryKeys ==
    ListKeys \cup PropertyKeys
        \cup {"format", "eventDateRangeStart", "eventDateRangeEnd",
              "locationId", "city", "geo", "geodistance"}

\* C16: a non-empty markers filter is the value of the markers parameter,
\* character for character, in the list and the export query of every
\* kind, and the query has no parameter outside the documented ones (the
\* markers are not divided over parameters of their own).
C16_MarkersForwarded ==
    (queryFn \in ListFns \cup ExportFns \cup {"buildListQuery"}
     /\ CalledListOptions.Markers # << >>)
    => /\ "markers" \in DOMAIN queryOut
       /\ queryOut["markers"] = CalledListOptions.Markers
       /\ DOMAIN queryOut \subseteq QueryKeys

\* markers with blanks around them, in a venue export
C16_BlanksKept ==
    /\ queryFn = "ExportVenues"
    /\ CalledListOptions.Markers = <<" ", "b", ",", "!", "a", " ">>
    /\ queryOut["markers"] = <<" ", "b", ",", "!", "a", " ">>

-----------------------------------------------------------------------------
(* Properties of the resource helpers, under SpecResource *)

\* the singular and the plural name of each kind
KindNames ==
    {<<Str_event, Str_events>>, <<Str_location, Str_locations>>,
     <<Str_route, Str_routes>>, <<Str_venue, Str_venues>>,
     <<Str_eventgroup, Str_eventgroups>>}

\* x spells the lower-case word w, letter case aside
Spells(x, w) ==
    /\ Len(x) = Len(w)
    /\ \A i \in 1..Len(w) : x[i] = w[i] \/ x[i] = UpperOf(w[i])

\* C17: ResourceTypeToEndpoint maps the singular and the plural spelling
\* of each of the five kinds, in any letter case, to the plural path
\* segment; it returns any other input unchanged; and applying it to its
\* result returns that result.
C17_EndpointResolved ==
    resFn = "ResourceTypeToEndpoint" =>
        /\ \A k \in KindNames :
              (Spells(resIn, k[1]) \/ Spells(resIn, k[2])) => resOut = k[2]
        /\ (\A k \in KindNames : ~Spells(resIn, k[1]) /\ ~Spells(resIn, k[2]))
              => resOut = resIn
        /\ ResourceTypeToEndpoint(resOut) = resOut

\* a singular name in mixed case
C17_MixedCaseSingular ==
    /\ resFn = "ResourceTypeToEndpoint"
    /\ resIn = <<"E", "v", "e", "n", "t", "G", "r", "o", "u", "p">>
    /\ resOut = Str_eventgroups

\* v is a JSON array whose elements are all strings
ArrayOfStrings(v) ==
    v.type = "array" /\ \A i \in 1..Len(v.items) : v.items[i].type = "string"

\* v is a JSON array whose elements are all strings or null
ArrayOfStringsOrNull(v) ==
    v.type = "array"
        /\ \A i \in 1..Len(v.items) : v.items[i].type \in {"string", "null"}

\* parts, joined by commas, is the text s, and no part holds a comma
RECURSIVE JoinComma(_)
JoinComma(parts) ==
    IF Len(parts) = 1 THEN parts[1]
    ELSE parts[1] \o <<",">> \o JoinComma(Tail(parts))

CommaParts(parts, s) ==
    /\ parts # << >>
    /\ \A i \in 1..Len(parts) : \A j \in 1..Len(parts[i]) : parts[i][j] # ","
    /\ JoinComma(parts) = s

\* C18, as amended: decoding a markers field never returns an error; an
\* array of strings yields the same sequence, and an array of strings
\* and nulls yields it with the empty string in the place of each null;
\* a non-empty bare string yields its comma-separated parts in order;
\* null, the empty string and any other shape yield the empty sequence.
C18_MarkersDecoded ==
    resFn = "UnmarshalJSON" =>
        /\ resOut.err = "nil"
        /\ ArrayOfStringsOrNull(resIn) =>
              /\ Len(resOut.f) = Len(resIn.items)
              /\ \A i \in 1..Len(resIn.items) :
                    resOut.f[i] = (IF resIn.items[i].type = "string"
                                   THEN resIn.items[i].s ELSE << >>)
        /\ (resIn.type = "string" /\ resIn.s # << >>) => CommaParts(resOut.f, resIn.s)
        /\ (~ArrayOfStringsOrNull(resIn) /\ ~(resIn.type = "string" /\ resIn.s # << >>))
              => resOut.f = << >>

\* C18 as stated: whatever is neither an array of strings nor a non-empty
\* bare string, an array with a null element included, yields the empty
\* sequence.
C18_OtherShapesEmpty ==
    resFn = "UnmarshalJSON" =>
        /\ resOut.err = "nil"
        /\ ArrayOfStrings(resIn) =>
              /\ Len(resOut.f) = Len(resIn.items)
              /\ \A i \in 1..Len(resIn.items) : resOut.f[i] = resIn.items[i].s
        /\ (resIn.type = "string" /\ resIn.s # << >>) => CommaParts(resOut.f, resIn.s)
        /\ (~ArrayOfStrings(resIn) /\ ~(resIn.type = "string" /\ resIn.s # << >>))
              => resOut.f = << >>

\* the bare string a,b,c
C18_BareStringSplit ==
    /\ resFn = "UnmarshalJSON"
    /\ resIn = JString(<<"a", ",", "b", ",", "c">>)
    /\ resOut.f = << <<"a">>, <<"b">>, <<"c">> >>

\* the value the singular field raw holds as a structured object: the
\* string under its key name, the empty string when there is none
StructuredValue(raw, name) ==
    IF /\ raw.type = "object"
       /\ \E i \in 1..Len(raw.items) :
             Spells(raw.items[i].key, name) /\ raw.items[i].val.type = "string"
    THEN raw.items[CHOOSE i \in 1..Len(raw.items) :
                       /\ Spells(raw.items[i].key, name)
                       /\ raw.items[i].val.type = "string"].val.s
    ELSE << >>

\* the value the singular field raw holds as a bare string
BareValue(raw) == IF raw.type = "string" THEN raw.s ELSE << >>

\* the first of the three alternatives that is present and not empty
FirstContact(entries, raw, name) ==
    IF entries # << >> /\ entries[1] # << >> THEN entries[1]
    ELSE IF StructuredValue(raw, name) # << >> THEN StructuredValue(raw, name)
    ELSE BareValue(raw)

\* C19: GetPhone and GetEmail return the first of: the first entry of the
\* structured array, the value of the singular field read as an object,
\* the singular field read as a bare string, that is present and not
\* empty; the empty string when none is.
C19_ContactPriority ==
    /\ resFn = "GetPhone" =>
          resOut = FirstContact([i \in 1..Len(resIn.Phones) |-> resIn.Phones[i].Number],
                                resIn.Phone, Str_number)
    /\ resFn = "GetEmail" =>
          resOut = FirstContact([i \in 1..Len(resIn.Mails) |-> resIn.Mails[i].Email],
                                resIn.Mail, Str_email)

\* an empty first entry, a second entry, and an object in the singular
\* field: the object is used
C19_EmptyFirstEntrySkipped ==
    /\ resFn = "GetPhone"
    /\ Len(resIn.Phones) = 2
    /\ resIn.Phones[1].Number = << >>
    /\ resIn.Phones[2].Number # << >>
    /\ resIn.Phone.type = "object"
    /\ resOut = <<"0", "2", "0">>

\* the positions of the entries of ds in language l that have a title
Titled(ds, l) == {i \in 1..Len(ds) : ds[i].Lang = l /\ ds[i].Title # << >>}

\* the title of the first of them
FirstTitled(ds, l) ==
    ds[CHOOSE i \in Titled(ds, l) : \A j \in Titled(ds, l) : i <= j].Title

\* C20: GetTitle returns the title of the first entry in nl that has one,
\* else of the first in en, else of the first in de; when no entry in
\* these languages has a title, the title of the first entry of the list;
\* and "-" when that is empty or the list is; it never returns the empty
\* string.
C20_TitleByPreference ==
    resFn = "GetTitle" =>
        /\ resOut # << >>
        /\ resOut =
             (LET ds == resIn.TRCItemDetails
              IN IF Titled(ds, Str_nl) # {} THEN FirstTitled(ds, Str_nl)
                 ELSE IF Titled(ds, Str_en) # {} THEN FirstTitled(ds, Str_en)
                 ELSE IF Titled(ds, Str_de) # {} THEN FirstTitled(ds, Str_de)
                 ELSE IF ds # << >> /\ ds[1].Title # << >> THEN ds[1].Title
                 ELSE Str_dash)

\* Foo in en ahead of Bar in nl: Bar
C20_DutchPreferred ==
    /\ resFn = "GetTitle"
    /\ resIn.TRCItemDetails =
          <<[Lang |-> Str_en, Title |-> <<"F", "o", "o">>], [Lang |-> Str_nl, Title |-> <<"B", "a", "r">>]>>
    /\ resOut = <<"B", "a", "r">>

-----------------------------------------------------------------------------
(* Properties of ParseResources, under SpecResource *)

\* C21: when a list response contains a resource with a malformed or
\* unexpected JSON shape in a field other than its id, ParseResources
\* returns no error and one resource for each item of the response, in
\* order, each with the id of its item, and a keywords field that is not
\* an array reads as no keywords.
C21_MalformedFieldDegrades ==
    resFn = "ParseResources" =>
        /\ resOut.err = "nil"
        /\ Len(resOut.resources) = Len(resIn)
        /\ \A i \in 1..Len(resOut.resources) :
            /\ resOut.resources[i].ID = <<"e">>
            /\ resOut.resources[i].Keywords.type # "array" =>
                   GetKeywords(resOut.resources[i]) = << >>

-----------------------------------------------------------------------------
(* Properties of the commands on a resource, under SpecClient *)

PublishCommands == {"publish", "unpublish"}

\* the value of published the command is to leave
TargetValue == JBool(IF cmdArgs.published THEN Str_true ELSE Str_false)

\* a publish or unpublish has returned without an error
PublishSucceeded ==
    pc = "done" /\ cmdName \in PublishCommands /\ cmdErr = NoCmdError

\* C22: with no write of another client, once a publish or unpublish has
\* returned without an error (after any commands before it), the server's
\* document has published equal to the command's target and every other
\* key as it was at first.
C22_OnlyPublishedChanges ==
    (PublishSucceeded /\ external = << >>) =>
        /\ DOMAIN server = DOMAIN initial \cup {"published"}
        /\ server["published"] = TargetValue
        /\ \A k \in DOMAIN initial \ {"published"} : server[k] = initial[k]

\* C23: a publish or unpublish that returned without an error has left on
\* the server the document its GET fetched with published set to the
\* target, whatever another client wrote between the GET and the PUT:
\* apart from published, every key that holds a string, a boolean or null
\* has the fetched value, and no error or conflict is reported.
C23_LastWriteWins ==
    PublishSucceeded =>
        /\ body.kind = "object"
        /\ DOMAIN server = DOMAIN body.doc \cup {"published"}
        /\ server["published"] = TargetValue
        /\ \A k \in DOMAIN body.doc \ {"published"} :
               body.doc[k].type # "number" => server[k] = body.doc[k]

\* a publish returned without an error and the title another client wrote
\* between the GET and the PUT is gone from the server
C23_ExternalUpdateLost ==
    /\ PublishSucceeded
    /\ external # << >>
    /\ external[1].at = "awaitPut"
    /\ external[1].key = "title"
    /\ server["title"] # external[1].val

\* the commands that call the client once
SingleRequestCommands ==
    {"get", "comments", "revisions", "comment", "delete", "accounts me",
     "accounts list", "dictionary keywords", "dictionary markers",
     "dictionary ontology", "dictionary categories", "events list",
     "events export"}

\* the command went past its local checks and its confirmation prompt
PassedLocalChecks ==
    /\ cmdErr.kind \in {"none", "API_ERROR"}
    /\ \A i \in 1..Len(stdout) : stdout[i] # "Cancelled."

\* C24: a command that calls the client once has issued exactly one
\* request from the moment it waits for the response on, and none when a
\* local check stopped it; publish and unpublish issue a GET, and after
\* the GET returned a JSON object one PUT, in that order; no command
\* issues a request again, whether it failed or not.
C24_OneRequestPerOperation ==
    /\ cmdName \in SingleRequestCommands =>
        /\ Len(requests) <= 1
        /\ pc = "awaiting" => Len(requests) = 1
        /\ (pc = "done" /\ PassedLocalChecks) => Len(requests) = 1
        /\ (pc = "done" /\ ~PassedLocalChecks) => requests = << >>
    /\ cmdName \in PublishCommands =>
        /\ Len(requests) \in {1, 2}
        /\ requests[1].method = "GET"
        /\ pc = "awaitGet" => Len(requests) = 1
        /\ (pc = "awaitPut" \/ (pc = "done" /\ body.kind = "object")) =>
               (Len(requests) = 2 /\ requests[2].method = "PUT")
        /\ (pc = "done" /\ body.kind # "object") => Len(requests) = 1

\* a publish whose PUT failed has ended with its two requests
C24_FailedPutNotRetried ==
    /\ pc = "done"
    /\ cmdName = "publish"
    /\ cmdErr.kind = "API_ERROR"
    /\ Len(requests) = 2
    /\ requests[1].method = "GET"
    /\ requests[2].method = "PUT"

\* C29: when the GET of a publish or unpublish fails or returns a body
\* that is not a JSON object, the command returns an error and has issued
\* no PUT.
C29_FailedFetchReturnsError ==
    (pc = "done" /\ cmdName \in PublishCommands /\ body.kind # "object") =>
        /\ cmdErr.kind \in {"GET_ERROR", "PARSE_ERROR"}
        /\ \A i \in 1..Len(requests) : requests[i].method # "PUT"

\* C30: a delete command issues its DELETE only with --force or the
\* answer y or Y (blanks around it not counted); with any other answer it
\* prints Cancelled., returns no error and issues no request.
C30_DeleteOnlyOnYes ==
    cmdName = "delete" =>
        IF cmdArgs.force \/ TrimSpace(cmdArgs.line) \in {<<"y">>, <<"Y">>}
        THEN requests # << >>
        ELSE /\ requests = << >>
             /\ pc = "done"
             /\ cmdErr = NoCmdError
             /\ \E i \in 1..Len(stdout) : stdout[i] = "Cancelled."

-----------------------------------------------------------------------------
(* Properties of main and of the JSON output, under SpecResource *)

C26_FullResponsePrinted ==
    (resFn = "ListOutputJSON" /\ resIn.type = "object") =>
        /\ resOut.err = "nil" =>
            \A i \in 1..Len(resIn.items) :
                \E j \in 1..Len(resOut.out.items) :
                    /\ resOut.out.items[j].key = resIn.items[i].key
                    /\ resOut.out.items[j].val = resIn.items[i].val
        /\ (\A i \in 1..Len(resIn.items) :
                ResultFieldDecodes(resIn.items[i].key, resIn.items[i].val)) =>
            resOut.err = "nil"

-----------------------------------------------------------------------------
(* Properties of dictionary categories, under SpecResource *)

\* every category of the trees cats with the label of its direct parent
RECURSIVE Placed(_, _, _)
Placed(cats, parent, lang) ==
    UNION {{[cat |-> cats[i], parent |-> parent]}
           \cup Placed(cats[i].Children, LabelOf(cats[i], lang), lang) :
              i \in 1..Len(cats)}

\* the categories a run is to list: those of the selected categorizations
\* without children and with a cnetID
Listed(c) ==
    {p \in Placed(SelectSeq(c.cats, LAMBDA cat :
                      c.Type = "" \/ cat.EntityType = "EVENEMENT"),
                  << >>, c.Lang) :
        p.cat.Children = << >> /\ p.cat.CnetID # << >>}

\* the line a listed category is printed as
LineOf(p, lang) ==
    [ID |-> IF p.cat.ID.nil \/ p.cat.ID.s = << >> THEN p.cat.CnetID ELSE p.cat.ID.s,
     Label |-> LabelOf(p.cat, lang),
     Parent |-> p.parent]

\* the place of the category a line stands for: its label without the
\* first character
PlaceOf(line) == Tail(line.Label)

\* whether place a comes before place b in a depth-first walk
PlaceBefore(a, b) ==
    \E k \in 1..Len(a) :
        /\ k <= Len(b)
        /\ \A j \in 1..(k - 1) : a[j] = b[j]
        /\ DigitVal(a[k]) < DigitVal(b[k])

-----------------------------------------------------------------------------
(* The export query against the list query, under SpecQuery *)

\* the query the list function of the kind of export function fn sends
\* for opts
ListQueryOf(fn, opts) ==
    CASE fn = "ExportEvents" -> ListEventsQuery(opts)
      [] fn = "ExportLocations" -> ListLocationsQuery(opts)
      [] fn = "ExportVenues" -> ListVenuesQuery(opts)
      [] fn = "ExportRoutes" -> ListRoutesQuery(opts)
      [] fn = "ExportEventGroups" -> ListEventGroupsQuery(opts)

\* whether the export query out is the list query list plus format and,
\* when property ids were given, the property-ids key
ExportExtendsList(out, list, given) ==
    /\ DOMAIN list \subseteq DOMAIN out
    /\ \A k \in DOMAIN list : out[k] = list[k]
    /\ "format" \in DOMAIN out \ DOMAIN list
    /\ (DOMAIN out \ DOMAIN list) \ {"format"}
           \subseteq (IF given THEN PropertyKeys ELSE {})

\* C28: for every kind and every filter input, the export query is the
\* list query built from the same options plus format and, when given,
\* the property-ids key: every parameter the list sends is in the export
\* with the same key and value, and the export has no other parameter.
C28_ExportIsListPlusFormat ==
    queryFn \in ExportFns =>
        ExportExtendsList(queryOut, ListQueryOf(queryFn, queryIn.opts),
                          queryFn \in PropertyFns
                          /\ queryIn.exportOpts.PropertyIDs # << >>)

\* an event export with a date range, a center and a radius, and property
\* ids
C28_FilteredEventExport ==
    /\ queryFn = "ExportEvents"
    /\ {"eventDateRangeStart", "eventDateRangeEnd", "geo", "geodistance",
        "format", "export_propertyids"} \subseteq DOMAIN queryOut
    /\ queryOut["geo"] = ListEventsQuery(queryIn.opts)["geo"]

====
